---- MODULE Spec2Model ----
(***************************************************************************)
(* A model of the session lifecycle and forwarding core of chisel:         *)
(*   - tunnel.Proxy        (runTCP, connectionWorker, pipeRemote)          *)
(*   - tunnel.Tunnel       (BindSSH, getSSH, activatingConnWait)           *)
(*   - cio.Pipe            (chunkedCopy, Pipe)                             *)
(*   - cnet.wsConn         (Read, Write)                                   *)
(*   - chclient.Client     (connectionLoop, connectionOnce)                *)
(* Each component has its own specification (SpecProxy, SpecTunnel, ...);  *)
(* the variables of the other components stay at their initial values.     *)
(***************************************************************************)
EXTENDS Integers, Sequences, FiniteSets, TLC

VARIABLES
    \* ---- Proxy (tunnel/proxy.go) ----
    reverseServer,  \* p.remote.Reverse && !p.sshTun.IsInbound()
    runPc,          \* position of runTCP: "init", "accept", "select", "waitctx", "returned"
    runErr,         \* error returned by runTCP: "none", "nil", "err"
    pctx,           \* TRUE once the context given to Run is canceled
    tcpClosed,      \* TRUE once p.tcp.Close() was called
    doneClosed,     \* TRUE once close(done) was called
    closerPc,       \* the listener-closer goroutine: "none", "waiting", "exited"
    workers,        \* number of connectionWorker goroutines still running
    connPool,       \* number of tokens buffered in p.connPool
    inFlight,       \* pipeRemote goroutines started and not yet returned
    lastAccept,     \* fate of the connection accepted last: "none", "forwarded", "closed"
    \* ---- Tunnel (tunnel/tunnel.go) ----
    activeConn,     \* t.activeConn: NoConn (nil) or the session stored
    activatingN,    \* counter of the waitGroup t.activatingConn
    bpc,            \* per session, position of its BindSSH call
    wpc,            \* per session, position of the context-watcher goroutine
    bctx,           \* per session, TRUE once the ctx given to BindSSH is canceled
    connClosed,     \* per session, TRUE once the ssh connection is closed
    panicked,       \* TRUE once the process panicked ("double bind ssh")
    gpc,            \* per getSSH caller, position of its call
    gctx,           \* per getSSH caller, TRUE once its ctx is canceled
    gres,           \* per getSSH caller, the value its last call returned
    gvia,           \* per getSSH caller, the return statement its last call took
    gCallConn,      \* history: t.activeConn when the call started
    gGap,           \* history: the call started after a BindSSH returned, none stored
    gStored,        \* history: a BindSSH stored a session during the call
    gCleared,       \* history: a BindSSH cleared the session during the call
    \* ---- Pipe (share/cio/pipe.go) ----
    epLen,          \* per endpoint, length of the stream it delivers to Read
    epEOF,          \* per endpoint, TRUE when that stream ends (else Read blocks)
    epPos,          \* per endpoint, number of bytes Read has taken from it
    epOut,          \* per endpoint, the bytes its Write accepted
    epCloses,       \* per endpoint, number of Close calls made on it
    cpc,            \* per direction, position of the copy goroutine
    cbuf,           \* per direction, buf[0:nr] after the last Read
    cer,            \* per direction, er of the last Read
    ctotal,         \* per direction, total of chunkedCopy
    cret,           \* per direction, the error chunkedCopy returned
    cwfail,         \* history: a Write of this direction was short or failed
    reads,          \* number of Read calls made by the two directions
    once,           \* the sync.Once o: "idle", "running", "done"
    wg,             \* counter of the sync.WaitGroup wg
    pipePc,         \* Pipe itself: "wait", "returned"
    sent,           \* Pipe's variable sent
    received,       \* Pipe's variable received
    \* ---- wsConn.Read (share/cnet) ----
    inFrames,       \* sizes of the frames that arrived on the websocket, in order
    taken,          \* number of those frames ReadMessage has consumed
    readFailed,     \* TRUE once ReadMessage returned an error (it then keeps failing)
    peerClosed,     \* TRUE once the peer closed: no frame arrives any more
    buff,           \* c.buff, the leftover of the last frame (NoBuff when nil)
    rdOut,          \* the bytes all Read calls returned, in order
    rdCalls,        \* number of Read calls made
    rdDst,          \* len(dst) of the last Read
    rdN,            \* n returned by the last Read
    rdErr,          \* error returned by the last Read: "none", "nil", "err"
    rdHadBuff,      \* history: the last Read found a leftover
    rdTook,         \* history: the last Read consumed a frame
    \* ---- wsConn.Write (share/cnet) ----
    wrPc,           \* position of Write: "idle", "loop", "single", "returned"
    wrLen,          \* len(b) of the current Write
    wrI,            \* the loop variable i
    wire,           \* frames WriteMessage accepted: <<call, from, to>> of b
    wrMsgs,         \* number of WriteMessage calls made by the current Write
    wrN,            \* n returned by the last Write
    wrErr,          \* error returned by the last Write: "none", "nil", "err"
    wrCalls,        \* number of Write calls made
    \* ---- Client (client/client_connect.go) ----
    maxRetryCount,      \* c.config.MaxRetryCount
    maxRetryInterval,   \* c.config.MaxRetryInterval, in milliseconds
    loopPc,             \* position of connectionLoop / connectionOnce
    clientCtx,          \* TRUE once the ctx given to connectionLoop is canceled
    attempt,            \* the attempt counter of the backoff b
    consecutiveFailures,
    adaptiveBackoff,    \* in milliseconds
    finalBackoff,       \* in milliseconds, of the last "Retrying in"
    lastSuccess,        \* "zero", "recent" or "old" (more than 5 minutes ago)
    connected,          \* connected, as returned by the last connectionOnce
    connErr,            \* err, as returned by the last connectionOnce
    t0Elapsed,          \* ms from t0 to the call of BindSSH, current attempt
    sessionTime,        \* ms the session of the current attempt was bound
    attempts,           \* history: number of connectionOnce calls
    dials,              \* history: number of d.DialContext calls
    binds,              \* history: number of tunnel.BindSSH calls
    allFailed,          \* history: no connectionOnce returned connected = true
    gaveUp,             \* history: "Give up" was logged
    clientClosed,       \* history: number of c.Close() calls by connectionLoop
    attemptLogs,        \* history: messages carrying "(Attempt: k/N)"
    lateResult,         \* history: connectionOnce returned with ctx canceled
    logged,             \* the messages the current iteration of connectionLoop logged
    loopRet,            \* value connectionLoop returned: "none", "nil"
    \* ---- Tunnel.keepAliveLoop (tunnel/tunnel.go) ----
    keepAlive,          \* t.Config.KeepAlive
    kaPc,               \* per followed session, position of its keepAliveLoop
    kaSleep,            \* per followed session, actualDuration of the last sleep
    kaLast,             \* per followed session, result of the last ping
    kaPings,            \* per followed session, number of pings sent
    kaClosedIt,         \* history: the loop's Close closed a connection still open
    \* ---- Tunnel.BindRemotes (tunnel/tunnel.go) ----
    brN,                \* len(remotes)
    brInbound,          \* t.Inbound
    proxyCount,         \* t.proxyCount
    brCount0,           \* history: t.proxyCount when BindRemotes was called
    brPc,               \* position of BindRemotes
    brI,                \* proxies made by the first loop
    brCtx,              \* TRUE once the caller's ctx is canceled
    brListeners,        \* the proxies whose listener is bound
    brIds,              \* per proxy, its id (0: not made)
    prPc,               \* per proxy, position of its errgroup goroutine
    prErr,              \* per proxy, what its Run returned
    egErr,              \* the error the errgroup keeps
    egCtx,              \* TRUE once the ctx of the errgroup is done
    brFirst,            \* history: the first proxy whose error reached the errgroup
    brRet,              \* what BindRemotes returned
    \* ---- goroutines of a Tunnel and a Proxy ----
    hasKeepAlive,       \* c.KeepAlive > 0
    healthPc,           \* the connectionPoolHealthCheck goroutine: "none", "running"
    healthTicks,        \* ticks of t.healthCheck it has served
    rootCtx,            \* TRUE once the root context is canceled
    sessCtx,            \* TRUE once the ctx connectionOnce derived is canceled
    sessPc,             \* the BindSSH call: "idle", "bound", "returned"
    sessClosed,         \* TRUE once the ssh connection is closed
    sessActive,         \* t.activeConn != nil
    latchN,             \* counter of the waitGroup t.activatingConn
    watchPc,            \* the watcher goroutine of BindSSH
    kaLoopPc,           \* the keepAliveLoop goroutine
    handlersN,          \* handler goroutines of the session still running
    lfRunPc,            \* runTCP of the proxy: "idle", "running", "returned"
    lfDone,             \* TRUE once close(done) was called
    lfTcpClosed,        \* TRUE once p.tcp.Close() was called
    lfCloserPc,         \* the listener-closer goroutine
    lfWorkers,          \* connectionWorker goroutines still running
    callPc,             \* per forwarded connection, position of its getSSH call
    latchPc,            \* per forwarded connection, its activatingConnWait goroutine
    \* ---- forwarded connections (Proxy.pipeRemote) ----
    fcPc,               \* per connection, position of its pipeRemote
    fcSrcClosed,        \* per connection, TRUE once its local stream is closed
    fcChan,             \* per connection, its ssh channel: "none", "open", "closed"
    fcEnd,              \* per connection, how its pipeRemote ended
    fcActive,           \* t.activeConn: NoConn or the session
    fcSessClosed,       \* TRUE once the session is closed
    fcFailed,           \* connStats.FailedConnections
    fcPool,             \* tokens in p.connPool
    fcActiveConns,      \* connStats.ActiveConnections
    \* ---- request headers (share/traffic/headers.go) ----
    hdrUser,            \* the user headers given to MergeHeaders
    hdrReal,            \* the realistic headers given to MergeHeaders
    hdrGenerated,       \* TRUE when hdrReal came from GenerateRealisticHeaders
    hdrMerged,          \* what MergeHeaders returned
    hdrDone,            \* TRUE once MergeHeaders returned
    \* ---- Meter (share/cnet/meter.go) ----
    mtPrinting,         \* m.printing
    mtGo,               \* per goprint goroutine: "none", "sleep", "loaded", "done"
    mtSnap,             \* per goprint goroutine, its snapshot <<s, r>>
    mtPc,               \* per metered caller: "idle", "print", "go"
    mtOps,              \* metered Read and Write calls made
    mtSent,             \* m.sent
    mtRecv,             \* m.recv
    mtLsent,            \* m.lsent
    mtLrecv,            \* m.lrecv
    \* ---- connectionLoop over the client's Tunnel (client_connect.go, tunnel.go) ----
    cbPc,               \* position of connectionLoop / connectionOnce / BindSSH
    cbCtx,              \* TRUE once the client's ctx is canceled
    cbSession,          \* sessions handed to BindSSH so far (the last is the current one)
    cbCalls,            \* connectionOnce calls made
    cbActive,           \* t.activeConn of the client's tunnel: NoConn or a session
    cbPanicked,         \* TRUE once BindSSH panicked with "double bind ssh"
    cbGiveUp,           \* TRUE when the loop gives up after this attempt
    \* ---- keepalive loops over the sessions of one Tunnel (tunnel.go) ----
    ksKeepAlive,        \* TRUE when t.Config.KeepAlive > 0
    ksCount,            \* sessions handed to BindSSH so far
    ksActive,           \* t.activeConn: NoConn or the session stored
    ksClosed,           \* per session, TRUE once its connection is closed
    ksLoopPc,           \* per session, its keepAliveLoop: "none", "sleep", "ping", "close", "done"
    ksStarted,          \* per session, keepAliveLoop goroutines started for it
    ksPings,            \* per loop, pings that were answered well
    ksPinged,           \* per loop, the sessions it sent a ping on
    ksClosedBy,         \* per loop, the sessions it called Close on
    ksLate              \* per loop, pings sent after its session's connection was closed

proxyVars == <<reverseServer, runPc, runErr, pctx, tcpClosed, doneClosed,
               closerPc, workers, connPool, inFlight, lastAccept>>

tunnelVars == <<activeConn, activatingN, bpc, wpc, bctx, connClosed, panicked,
                gpc, gctx, gres, gvia, gCallConn, gGap, gStored, gCleared>>

pipeVars == <<epLen, epEOF, epPos, epOut, epCloses, cpc, cbuf, cer, ctotal,
              cret, cwfail, reads, once, wg, pipePc, sent, received>>

wsReadVars == <<inFrames, taken, readFailed, peerClosed, buff, rdOut, rdCalls,
                rdDst, rdN, rdErr, rdHadBuff, rdTook>>

wsWriteVars == <<wrPc, wrLen, wrI, wire, wrMsgs, wrN, wrErr, wrCalls>>

clientVars == <<maxRetryCount, maxRetryInterval, loopPc, clientCtx, attempt,
                consecutiveFailures, adaptiveBackoff, finalBackoff, lastSuccess,
                connected, connErr, t0Elapsed, sessionTime, attempts, dials,
                binds, allFailed, gaveUp, clientClosed, attemptLogs, logged,
                lateResult, loopRet>>

kaVars == <<keepAlive, kaPc, kaSleep, kaLast, kaPings, kaClosedIt>>

brVars == <<brN, brInbound, proxyCount, brCount0, brPc, brI, brCtx,
            brListeners, brIds, prPc, prErr, egErr, egCtx, brFirst, brRet>>

lfVars == <<hasKeepAlive, healthPc, healthTicks, rootCtx, sessCtx, sessPc,
            sessClosed, sessActive, latchN, watchPc, kaLoopPc, handlersN,
            lfRunPc, lfDone, lfTcpClosed, lfCloserPc, lfWorkers, callPc,
            latchPc>>

fcVars == <<fcPc, fcSrcClosed, fcChan, fcEnd, fcActive, fcSessClosed,
            fcFailed, fcPool, fcActiveConns>>

hdrVars == <<hdrUser, hdrReal, hdrGenerated, hdrMerged, hdrDone>>

meterVars == <<mtPrinting, mtGo, mtSnap, mtPc, mtOps, mtSent, mtRecv, mtLsent,
               mtLrecv>>

cbVars == <<cbPc, cbCtx, cbSession, cbCalls, cbActive, cbPanicked, cbGiveUp>>

ksVars == <<ksKeepAlive, ksCount, ksActive, ksClosed, ksLoopPc, ksStarted,
            ksPings, ksPinged, ksClosedBy, ksLate>>

vars == <<proxyVars, tunnelVars, pipeVars, wsReadVars, wsWriteVars,
          clientVars, kaVars, brVars, lfVars, fcVars, hdrVars, meterVars,
          cbVars, ksVars>>

nonProxyVars == <<tunnelVars, pipeVars, wsReadVars, wsWriteVars, clientVars,
                  kaVars, brVars, lfVars, fcVars, hdrVars, meterVars, cbVars,
                  ksVars>>
nonTunnelVars == <<proxyVars, pipeVars, wsReadVars, wsWriteVars, clientVars,
                   kaVars, brVars, lfVars, fcVars, hdrVars, meterVars, cbVars,
                   ksVars>>
nonPipeVars == <<proxyVars, tunnelVars, wsReadVars, wsWriteVars, clientVars,
                 kaVars, brVars, lfVars, fcVars, hdrVars, meterVars, cbVars,
                 ksVars>>
nonWsReadVars == <<proxyVars, tunnelVars, pipeVars, wsWriteVars, clientVars,
                   kaVars, brVars, lfVars, fcVars, hdrVars, meterVars, cbVars,
                   ksVars>>
nonWsWriteVars == <<proxyVars, tunnelVars, pipeVars, wsReadVars, clientVars,
                    kaVars, brVars, lfVars, fcVars, hdrVars, meterVars,
                    cbVars, ksVars>>
nonClientVars == <<proxyVars, tunnelVars, pipeVars, wsReadVars, wsWriteVars,
                   kaVars, brVars, lfVars, fcVars, hdrVars, meterVars, cbVars,
                   ksVars>>
nonTunnelKaVars == <<proxyVars, pipeVars, wsReadVars, wsWriteVars, clientVars,
                     brVars, lfVars, fcVars, hdrVars, meterVars, cbVars,
                     ksVars>>
nonBrVars == <<proxyVars, tunnelVars, pipeVars, wsReadVars, wsWriteVars,
               clientVars, kaVars, lfVars, fcVars, hdrVars, meterVars, cbVars,
               ksVars>>
nonLfVars == <<proxyVars, tunnelVars, pipeVars, wsReadVars, wsWriteVars,
               clientVars, kaVars, brVars, fcVars, hdrVars, meterVars, cbVars,
               ksVars>>
nonFcVars == <<proxyVars, tunnelVars, pipeVars, wsReadVars, wsWriteVars,
               clientVars, kaVars, brVars, lfVars, hdrVars, meterVars, cbVars,
               ksVars>>
nonHdrVars == <<proxyVars, tunnelVars, pipeVars, wsReadVars, wsWriteVars,
                clientVars, kaVars, brVars, lfVars, fcVars, meterVars, cbVars,
                ksVars>>
nonMeterVars == <<proxyVars, tunnelVars, pipeVars, wsReadVars, wsWriteVars,
                  clientVars, kaVars, brVars, lfVars, fcVars, hdrVars, cbVars,
                  ksVars>>
nonCbVars == <<proxyVars, tunnelVars, pipeVars, wsReadVars, wsWriteVars,
               clientVars, kaVars, brVars, lfVars, fcVars, hdrVars, meterVars,
               ksVars>>
nonKsVars == <<proxyVars, tunnelVars, pipeVars, wsReadVars, wsWriteVars,
               clientVars, kaVars, brVars, lfVars, fcVars, hdrVars, meterVars,
               cbVars>>

(***************************************************************************)
(* Proxy                                                                   *)
(***************************************************************************)

\* NewProxy: maxConns: 100, connPool: make(chan struct{}, 100)
maxConns == 100

\* runTCP: for i := 0; i < 10; i++ { go p.connectionWorker(ctx, done) }
numWorkers == 10

\* Bound of the model: pipeRemote goroutines explored at the same time.
MaxInFlight == 101

ProxyInit ==
    /\ reverseServer \in BOOLEAN
    /\ runPc = "init"
    /\ runErr = "none"
    /\ pctx = FALSE
    /\ tcpClosed = FALSE
    /\ doneClosed = FALSE
    /\ closerPc = "none"
    /\ workers = 0
    /\ connPool = 0
    /\ inFlight = 0
    /\ lastAccept = "none"

ProxyIdle == reverseServer = FALSE /\ runPc = "init" /\ runErr = "none"
             /\ pctx = FALSE /\ tcpClosed = FALSE /\ doneClosed = FALSE
             /\ closerPc = "none" /\ workers = 0 /\ connPool = 0
             /\ inFlight = 0 /\ lastAccept = "none"

\* The caller of Run cancels the context.
ProxyCancel ==
    /\ ~pctx
    /\ pctx' = TRUE
    /\ UNCHANGED nonProxyVars
    /\ UNCHANGED <<reverseServer, runPc, runErr, tcpClosed, doneClosed,
                   closerPc, workers, connPool, inFlight, lastAccept>>

\* runTCP up to the accept loop: the reverse/server-side early branch, or
\* the done channel, the listener-closer goroutine and the ten workers.
RunTCPStart ==
    /\ runPc = "init"
    /\ IF reverseServer
         THEN /\ runPc' = "waitctx"
              /\ UNCHANGED <<closerPc, workers>>
         ELSE /\ runPc' = "accept"
              /\ closerPc' = "waiting"
              /\ workers' = numWorkers
    /\ UNCHANGED nonProxyVars
    /\ UNCHANGED <<reverseServer, runErr, pctx, tcpClosed, doneClosed,
                   connPool, inFlight, lastAccept>>

\* runTCP, reverse/server side: <-ctx.Done(); return nil
RunTCPReverseReturn ==
    /\ runPc = "waitctx"
    /\ pctx
    /\ runPc' = "returned"
    /\ runErr' = "nil"
    /\ UNCHANGED nonProxyVars
    /\ UNCHANGED <<reverseServer, pctx, tcpClosed, doneClosed, closerPc,
                   workers, connPool, inFlight, lastAccept>>

\* The goroutine "implements missing net.ListenContext".
CloserOnCtx ==
    /\ closerPc = "waiting"
    /\ pctx
    /\ tcpClosed' = TRUE
    /\ closerPc' = "exited"
    /\ UNCHANGED nonProxyVars
    /\ UNCHANGED <<reverseServer, runPc, runErr, pctx, doneClosed, workers,
                   connPool, inFlight, lastAccept>>

CloserOnDone ==
    /\ closerPc = "waiting"
    /\ doneClosed
    /\ closerPc' = "exited"
    /\ UNCHANGED nonProxyVars
    /\ UNCHANGED <<reverseServer, runPc, runErr, pctx, tcpClosed, doneClosed,
                   workers, connPool, inFlight, lastAccept>>

\* p.tcp.Accept() returns a connection.
AcceptConn ==
    /\ runPc = "accept"
    /\ ~tcpClosed
    /\ runPc' = "select"
    /\ UNCHANGED nonProxyVars
    /\ UNCHANGED <<reverseServer, runErr, pctx, tcpClosed, doneClosed,
                   closerPc, workers, connPool, inFlight, lastAccept>>

\* p.tcp.Accept() returns an error (always when the listener is closed,
\* possibly otherwise): close(done) and return, nil when ctx is done.
AcceptError ==
    /\ runPc = "accept"
    /\ doneClosed' = TRUE
    /\ runErr' = IF pctx THEN "nil" ELSE "err"
    /\ runPc' = "returned"
    /\ UNCHANGED nonProxyVars
    /\ UNCHANGED <<reverseServer, pctx, tcpClosed, closerPc, workers,
                   connPool, inFlight, lastAccept>>

\* Mutant of SelectPoolBody: a connection accepted on a full pool is
\* forwarded all the same.
SelectPoolBody_ForwardWhenFull ==
    /\ inFlight < MaxInFlight
    /\ inFlight' = inFlight + 1
    /\ lastAccept' = "forwarded"
    /\ connPool' = IF connPool < maxConns THEN connPool + 1 ELSE connPool

\* select { case p.connPool <- struct{}{}: go p.pipeRemote(ctx, src)
\*          default: src.Close() }
SelectPoolBody ==
    IF connPool < maxConns
      THEN /\ inFlight < MaxInFlight
           /\ connPool' = connPool + 1
           /\ inFlight' = inFlight + 1
           /\ lastAccept' = "forwarded"
      ELSE /\ lastAccept' = "closed"
           /\ UNCHANGED <<connPool, inFlight>>

SelectPool ==
    /\ runPc = "select"
    /\ SelectPoolBody
    /\ runPc' = "accept"
    /\ UNCHANGED nonProxyVars
    /\ UNCHANGED <<reverseServer, runErr, pctx, tcpClosed, doneClosed,
                   closerPc, workers>>

\* connectionWorker: case <-p.connPool (a worker takes a token).
WorkerTake ==
    /\ workers > 0
    /\ connPool > 0
    /\ connPool' = connPool - 1
    /\ UNCHANGED nonProxyVars
    /\ UNCHANGED <<reverseServer, runPc, runErr, pctx, tcpClosed, doneClosed,
                   closerPc, workers, inFlight, lastAccept>>

\* connectionWorker: case <-ctx.Done() / case <-done: return
WorkerExit ==
    /\ workers > 0
    /\ pctx \/ doneClosed
    /\ workers' = workers - 1
    /\ UNCHANGED nonProxyVars
    /\ UNCHANGED <<reverseServer, runPc, runErr, pctx, tcpClosed, doneClosed,
                   closerPc, connPool, inFlight, lastAccept>>

\* Mutant of ReleaseSlot: pipeRemote returns without its deferred release.
ReleaseSlot_Never(pool) == pool

\* Mutant of ReleaseSlot: the release is made only when the pool is full.
ReleaseSlot_WhenFull(pool) == IF pool = maxConns THEN pool - 1 ELSE pool

\* pipeRemote returns: the deferred non-blocking receive from p.connPool
\* (select { case <-p.connPool: default: }), then src.Close().
ReleaseSlot(pool) == IF pool > 0 THEN pool - 1 ELSE pool

PipeRemoteReturn ==
    /\ inFlight > 0
    /\ connPool' = ReleaseSlot(connPool)
    /\ inFlight' = inFlight - 1
    /\ UNCHANGED nonProxyVars
    /\ UNCHANGED <<reverseServer, runPc, runErr, pctx, tcpClosed, doneClosed,
                   closerPc, workers, lastAccept>>

(***************************************************************************)
(* Tunnel                                                                  *)
(***************************************************************************)

\* Bound of the model: sessions handed to BindSSH.
MaxSessions == 2

Sessions == 1..MaxSessions

\* The nil ssh.Conn (t.activeConn == nil); sessions are numbered from 1.
NoConn == 0

\* The getSSH callers followed. getSSH only reads the tunnel, so callers do
\* not influence each other and one caller, calling again and again at
\* arbitrary moments, stands for all of them.
Waiters == {1}

\* The waitGroup type of package tunnel (Add, Done, DoneAll, Wait): a counter
\* that Done never takes below zero and DoneAll takes to zero; Wait returns
\* when the counter is zero.
wgAdd(n, k) == n + k
wgDone(n) == IF n > 0 THEN n - 1 ELSE n
wgDoneAll(n) == 0
wgWaitReturns(n) == n = 0

\* New: t.activatingConn.Add(1), activeConn is nil.
TunnelInit ==
    /\ activeConn = NoConn
    /\ activatingN = wgAdd(0, 1)
    /\ bpc = [s \in Sessions |-> "idle"]
    /\ wpc = [s \in Sessions |-> "none"]
    /\ bctx = [s \in Sessions |-> FALSE]
    /\ connClosed = [s \in Sessions |-> FALSE]
    /\ panicked = FALSE
    /\ gpc = [w \in Waiters |-> "idle"]
    /\ gctx = [w \in Waiters |-> FALSE]
    /\ gres = [w \in Waiters |-> NoConn]
    /\ gvia = [w \in Waiters |-> "none"]
    /\ gCallConn = [w \in Waiters |-> NoConn]
    /\ gGap = [w \in Waiters |-> FALSE]
    /\ gStored = [w \in Waiters |-> FALSE]
    /\ gCleared = [w \in Waiters |-> FALSE]

TunnelIdle == TunnelInit

\* A getSSH call is in progress for w.
InCall(w) == gpc[w] \in {"read", "select", "ready"}

\* BindSSH is called with session s and starts the goroutine that links ctx
\* to the ssh connection. Sessions are handed over in the order 1, 2, ...
BindSSHCall(s) ==
    /\ ~panicked
    /\ bpc[s] = "idle"
    /\ \A r \in Sessions : r < s => bpc[r] # "idle"
    /\ bpc' = [bpc EXCEPT ![s] = "called"]
    /\ wpc' = [wpc EXCEPT ![s] = "waiting"]
    /\ UNCHANGED <<activeConn, activatingN, bctx, connClosed, panicked,
                   gpc, gctx, gres, gvia, gCallConn, gGap, gStored, gCleared>>
    /\ UNCHANGED nonTunnelVars

\* Mutant of BindStoreBody: the store without the double-bind check.
BindStoreBody_NoCheck(s) ==
    /\ activeConn' = s
    /\ bpc' = [bpc EXCEPT ![s] = "bound"]
    /\ gStored' = [w \in Waiters |-> IF InCall(w) THEN TRUE ELSE gStored[w]]
    /\ UNCHANGED panicked

\* BindSSH: Lock; if t.activeConn != nil { panic("double bind ssh") };
\* t.activeConn = c; Unlock
BindStoreBody(s) ==
    IF activeConn # NoConn
      THEN /\ panicked' = TRUE
           /\ bpc' = [bpc EXCEPT ![s] = "panicked"]
           /\ UNCHANGED <<activeConn, gStored>>
      ELSE /\ activeConn' = s
           /\ bpc' = [bpc EXCEPT ![s] = "bound"]
           /\ gStored' = [w \in Waiters |-> IF InCall(w) THEN TRUE ELSE gStored[w]]
           /\ UNCHANGED panicked

BindStore(s) ==
    /\ ~panicked
    /\ bpc[s] = "called"
    /\ BindStoreBody(s)
    /\ UNCHANGED <<activatingN, wpc, bctx, connClosed,
                   gpc, gctx, gres, gvia, gCallConn, gGap, gCleared>>
    /\ UNCHANGED nonTunnelVars

\* BindSSH: t.activatingConn.Done(), then the keepalive and handler
\* goroutines are started and BindSSH blocks in c.Wait().
BindDone(s) ==
    /\ ~panicked
    /\ bpc[s] = "bound"
    /\ activatingN' = wgDone(activatingN)
    /\ bpc' = [bpc EXCEPT ![s] = "waiting"]
    /\ UNCHANGED <<activeConn, wpc, bctx, connClosed, panicked,
                   gpc, gctx, gres, gvia, gCallConn, gGap, gStored, gCleared>>
    /\ UNCHANGED nonTunnelVars

\* BindSSH: c.Wait() returns once the connection is closed; then
\* t.activatingConn.Add(1).
BindWaitReturn(s) ==
    /\ ~panicked
    /\ bpc[s] = "waiting"
    /\ connClosed[s]
    /\ activatingN' = wgAdd(activatingN, 1)
    /\ bpc' = [bpc EXCEPT ![s] = "added"]
    /\ UNCHANGED <<activeConn, wpc, bctx, connClosed, panicked,
                   gpc, gctx, gres, gvia, gCallConn, gGap, gStored, gCleared>>
    /\ UNCHANGED nonTunnelVars

\* BindSSH: Lock; t.activeConn = nil; Unlock; return err
BindClear(s) ==
    /\ ~panicked
    /\ bpc[s] = "added"
    /\ activeConn' = NoConn
    /\ bpc' = [bpc EXCEPT ![s] = "returned"]
    /\ gCleared' = [w \in Waiters |-> IF InCall(w) THEN TRUE ELSE gCleared[w]]
    /\ UNCHANGED <<activatingN, wpc, bctx, connClosed, panicked,
                   gpc, gctx, gres, gvia, gCallConn, gGap, gStored>>
    /\ UNCHANGED nonTunnelVars

\* The ctx given to BindSSH is canceled: by the root context at any time, or
\* by the deferred cancel of connectionOnce after BindSSH returned.
BindCtxCancel(s) ==
    /\ ~panicked
    /\ bpc[s] # "idle"
    /\ ~bctx[s]
    /\ bctx' = [bctx EXCEPT ![s] = TRUE]
    /\ UNCHANGED <<activeConn, activatingN, bpc, wpc, connClosed, panicked,
                   gpc, gctx, gres, gvia, gCallConn, gGap, gStored, gCleared>>
    /\ UNCHANGED nonTunnelVars

\* The ssh connection ends for another reason (the peer, the keepalive loop)
\* while BindSSH runs; once BindSSH returned the connection is closed already.
ConnClose(s) ==
    /\ ~panicked
    /\ bpc[s] \notin {"idle", "returned"}
    /\ ~connClosed[s]
    /\ connClosed' = [connClosed EXCEPT ![s] = TRUE]
    /\ UNCHANGED <<activeConn, activatingN, bpc, wpc, bctx, panicked,
                   gpc, gctx, gres, gvia, gCallConn, gGap, gStored, gCleared>>
    /\ UNCHANGED nonTunnelVars

\* The watcher goroutine of BindSSH: <-ctx.Done(); c.Close()
WatcherClose(s) ==
    /\ ~panicked
    /\ wpc[s] = "waiting"
    /\ bctx[s]
    /\ connClosed' = [connClosed EXCEPT ![s] = TRUE]
    /\ wpc' = [wpc EXCEPT ![s] = "closed"]
    /\ UNCHANGED <<activeConn, activatingN, bpc, bctx, panicked,
                   gpc, gctx, gres, gvia, gCallConn, gGap, gStored, gCleared>>
    /\ UNCHANGED nonTunnelVars

\* The watcher goroutine of BindSSH: t.activatingConn.DoneAll()
WatcherDoneAll(s) ==
    /\ ~panicked
    /\ wpc[s] = "closed"
    /\ activatingN' = wgDoneAll(activatingN)
    /\ wpc' = [wpc EXCEPT ![s] = "exited"]
    /\ UNCHANGED <<activeConn, bpc, bctx, connClosed, panicked,
                   gpc, gctx, gres, gvia, gCallConn, gGap, gStored, gCleared>>
    /\ UNCHANGED nonTunnelVars

\* A caller's ctx (the proxy's ctx) is canceled.
WaiterCtxCancel(w) ==
    /\ ~panicked
    /\ ~gctx[w]
    /\ gctx' = [gctx EXCEPT ![w] = TRUE]
    /\ UNCHANGED <<activeConn, activatingN, bpc, wpc, bctx, connClosed, panicked,
                   gpc, gres, gvia, gCallConn, gGap, gStored, gCleared>>
    /\ UNCHANGED nonTunnelVars

\* getSSH is called: if isDone(ctx) { return nil }
GetSSHCall(w) ==
    /\ ~panicked
    /\ gpc[w] \in {"idle", "done"}
    /\ IF gctx[w]
         THEN /\ gpc' = [gpc EXCEPT ![w] = "done"]
              /\ gres' = [gres EXCEPT ![w] = NoConn]
              /\ gvia' = [gvia EXCEPT ![w] = "cancel"]
         ELSE /\ gpc' = [gpc EXCEPT ![w] = "read"]
              /\ gres' = [gres EXCEPT ![w] = NoConn]
              /\ gvia' = [gvia EXCEPT ![w] = "none"]
    /\ gCallConn' = [gCallConn EXCEPT ![w] = activeConn]
    /\ gGap' = [gGap EXCEPT ![w] =
                  activeConn = NoConn /\ \E s \in Sessions : bpc[s] = "returned"]
    /\ gStored' = [gStored EXCEPT ![w] = FALSE]
    /\ gCleared' = [gCleared EXCEPT ![w] = FALSE]
    /\ UNCHANGED <<activeConn, activatingN, bpc, wpc, bctx, connClosed, panicked,
                   gctx>>
    /\ UNCHANGED nonTunnelVars

\* Mutant of GetSSHReadBody: the "connected already?" return is missing.
GetSSHReadBody_NoFastPath(w) ==
    /\ gpc' = [gpc EXCEPT ![w] = "select"]
    /\ UNCHANGED <<gres, gvia>>

\* getSSH: RLock; c := t.activeConn; RUnlock; if c != nil { return c };
\* otherwise the select starts, with the goroutine of activatingConnWait.
GetSSHReadBody(w) ==
    IF activeConn # NoConn
      THEN /\ gpc' = [gpc EXCEPT ![w] = "done"]
           /\ gres' = [gres EXCEPT ![w] = activeConn]
           /\ gvia' = [gvia EXCEPT ![w] = "immediate"]
      ELSE /\ gpc' = [gpc EXCEPT ![w] = "select"]
           /\ UNCHANGED <<gres, gvia>>

GetSSHRead(w) ==
    /\ ~panicked
    /\ gpc[w] = "read"
    /\ GetSSHReadBody(w)
    /\ UNCHANGED <<activeConn, activatingN, bpc, wpc, bctx, connClosed, panicked,
                   gctx, gCallConn, gGap, gStored, gCleared>>
    /\ UNCHANGED nonTunnelVars

\* activatingConnWait's goroutine: t.activatingConn.Wait() returns; close(ch)
LatchFire(w) ==
    /\ ~panicked
    /\ gpc[w] = "select"
    /\ wgWaitReturns(activatingN)
    /\ gpc' = [gpc EXCEPT ![w] = "ready"]
    /\ UNCHANGED <<activeConn, activatingN, bpc, wpc, bctx, connClosed, panicked,
                   gctx, gres, gvia, gCallConn, gGap, gStored, gCleared>>
    /\ UNCHANGED nonTunnelVars

\* getSSH: case <-t.activatingConnWait(): RLock; c := t.activeConn; RUnlock;
\* return c
GetSSHLatch(w) ==
    /\ ~panicked
    /\ gpc[w] = "ready"
    /\ gpc' = [gpc EXCEPT ![w] = "done"]
    /\ gres' = [gres EXCEPT ![w] = activeConn]
    /\ gvia' = [gvia EXCEPT ![w] = "latch"]
    /\ UNCHANGED <<activeConn, activatingN, bpc, wpc, bctx, connClosed, panicked,
                   gctx, gCallConn, gGap, gStored, gCleared>>
    /\ UNCHANGED nonTunnelVars

\* getSSH: case <-time.After(SSH_WAIT): return nil
GetSSHTimeout(w) ==
    /\ ~panicked
    /\ gpc[w] \in {"select", "ready"}
    /\ gpc' = [gpc EXCEPT ![w] = "done"]
    /\ gres' = [gres EXCEPT ![w] = NoConn]
    /\ gvia' = [gvia EXCEPT ![w] = "timeout"]
    /\ UNCHANGED <<activeConn, activatingN, bpc, wpc, bctx, connClosed, panicked,
                   gctx, gCallConn, gGap, gStored, gCleared>>
    /\ UNCHANGED nonTunnelVars

\* getSSH: case <-ctx.Done(): return nil
GetSSHCancel(w) ==
    /\ ~panicked
    /\ gpc[w] \in {"select", "ready"}
    /\ gctx[w]
    /\ gpc' = [gpc EXCEPT ![w] = "done"]
    /\ gres' = [gres EXCEPT ![w] = NoConn]
    /\ gvia' = [gvia EXCEPT ![w] = "cancel"]
    /\ UNCHANGED <<activeConn, activatingN, bpc, wpc, bctx, connClosed, panicked,
                   gctx, gCallConn, gGap, gStored, gCleared>>
    /\ UNCHANGED nonTunnelVars

TunnelNext ==
    \/ \E s \in Sessions :
         \/ BindSSHCall(s)
         \/ BindStore(s)
         \/ BindDone(s)
         \/ BindWaitReturn(s)
         \/ BindClear(s)
         \/ BindCtxCancel(s)
         \/ ConnClose(s)
         \/ WatcherClose(s)
         \/ WatcherDoneAll(s)
    \/ \E w \in Waiters :
         \/ WaiterCtxCancel(w)
         \/ GetSSHCall(w)
         \/ GetSSHRead(w)
         \/ LatchFire(w)
         \/ GetSSHLatch(w)
         \/ GetSSHTimeout(w)
         \/ GetSSHCancel(w)

(***************************************************************************)
(* Pipe                                                                    *)
(*                                                                         *)
(* The byte at position i of the stream arriving from an endpoint is       *)
(* written as the pair (endpoint, i); a run of consecutive bytes is a      *)
(* segment <<endpoint, lo, hi>> holding the positions lo .. hi-1, and a    *)
(* byte string is a sequence of segments. chunkedCopy never looks at the   *)
(* value of a byte, so distinct bytes lose no generality.                  *)
(***************************************************************************)

\* chunkSizeMin = 1 * 1024, chunkSizeMax = 32 * 1024
chunkSizeMin == 1024
chunkSizeMax == 32768

\* Bound of the model: Read calls made by the two chunkedCopy of one Pipe.
MaxReads == 4

Ends == {"src", "dst"}
Dirs == {"sent", "received"}

\* sent, _ = chunkedCopy(dst, src, rng2); received, _ = chunkedCopy(src, dst, rng1)
From(d) == IF d = "sent" THEN "src" ELSE "dst"
To(d) == IF d = "sent" THEN "dst" ELSE "src"

\* Lengths of the streams the endpoints deliver: empty, two bytes, longer
\* than the largest chunk.
StreamLens == {0, 2, chunkSizeMax + 1}

Min2(a, b) == IF a < b THEN a ELSE b

SegLen(seg) == seg[3] - seg[2]

RECURSIVE BytesLen(_)
BytesLen(bs) == IF bs = <<>> THEN 0 ELSE SegLen(Head(bs)) + BytesLen(Tail(bs))

\* bs followed by the segment seg, adjacent runs of one stream joined.
AppendBytes(bs, seg) ==
    IF SegLen(seg) = 0 THEN bs
    ELSE IF bs # <<>> /\ bs[Len(bs)][1] = seg[1] /\ bs[Len(bs)][3] = seg[2]
      THEN [bs EXCEPT ![Len(bs)] = <<seg[1], bs[Len(bs)][2], seg[3]>>]
      ELSE Append(bs, seg)

\* The first n bytes of the stream of endpoint e, as a byte string.
StreamPrefix(e, n) == IF n = 0 THEN <<>> ELSE << <<e, 0, n>> >>

PipeInit ==
    /\ epLen \in [Ends -> StreamLens]
    /\ epEOF \in [Ends -> BOOLEAN]
    /\ epPos = [e \in Ends |-> 0]
    /\ epOut = [e \in Ends |-> <<>>]
    /\ epCloses = [e \in Ends |-> 0]
    /\ cpc = [d \in Dirs |-> "read"]
    /\ cbuf = [d \in Dirs |-> <<From(d), 0, 0>>]
    /\ cer = [d \in Dirs |-> "nil"]
    /\ ctotal = [d \in Dirs |-> 0]
    /\ cret = [d \in Dirs |-> "none"]
    /\ cwfail = [d \in Dirs |-> FALSE]
    /\ reads = 0
    /\ once = "idle"
    /\ wg = 2
    /\ pipePc = "wait"
    /\ sent = 0
    /\ received = 0

PipeIdle ==
    /\ epLen = [e \in Ends |-> 0]
    /\ epEOF = [e \in Ends |-> FALSE]
    /\ epPos = [e \in Ends |-> 0]
    /\ epOut = [e \in Ends |-> <<>>]
    /\ epCloses = [e \in Ends |-> 0]
    /\ cpc = [d \in Dirs |-> "read"]
    /\ cbuf = [d \in Dirs |-> <<From(d), 0, 0>>]
    /\ cer = [d \in Dirs |-> "nil"]
    /\ ctotal = [d \in Dirs |-> 0]
    /\ cret = [d \in Dirs |-> "none"]
    /\ cwfail = [d \in Dirs |-> FALSE]
    /\ reads = 0
    /\ once = "idle"
    /\ wg = 2
    /\ pipePc = "wait"
    /\ sent = 0
    /\ received = 0

\* rng.Intn(n) draws from 0 .. n-1; the two extremes are followed.
RngIntn(n) == {0, n - 1}

\* chunkSize := chunkSizeMin + rng.Intn(chunkSizeMax-chunkSizeMin+1)
ChunkSizes == {chunkSizeMin + r : r \in RngIntn(chunkSizeMax - chunkSizeMin + 1)}

\* What src.Read(buf[:chunkSize]) may return on endpoint e, as <<nr, er>>:
\* an error once e is closed; otherwise 1 byte or as many as fit (with nil,
\* with io.EOF when these are the last bytes, or with an error), io.EOF when
\* the stream is exhausted and ends, an error, or (0, nil). A Read on an
\* open endpoint with nothing to deliver and no end of stream blocks.
ReadResults(e, chunkSize) ==
    LET avail == epLen[e] - epPos[e]
        sizes == {n \in {1, Min2(chunkSize, avail)} : 1 <= n /\ n <= avail}
    IN IF epCloses[e] > 0 THEN {<<0, "err">>}
       ELSE {<<n, "nil">> : n \in sizes}
            \cup {<<n, "EOF">> : n \in {m \in sizes : m = avail /\ epEOF[e]}}
            \cup (IF avail = 0 /\ epEOF[e] THEN {<<0, "EOF">>} ELSE {})
            \cup {<<0, "err">>, <<0, "nil">>}

\* What dst.Write(buf[0:nr]) may return on endpoint e, as <<nw, ew>>: an
\* error once e is closed; otherwise everything, or a short write of 0 or 1
\* bytes, reported with or without an error.
WriteResults(e, nr) ==
    IF epCloses[e] > 0 THEN {<<0, "err">>}
    ELSE {<<nr, "nil">>}
         \cup {<<n, ew>> : n \in {m \in {0, 1} : m < nr}, ew \in {"err", "nil"}}

\* Mutant of WriteOutcome: total counts the bytes read, not the bytes written.
WriteOutcome_CountsRead(nr, nw, ew) ==
    [add |-> nr,
     ret |-> IF ew # "nil" THEN ew ELSE IF nr # nw THEN "short" ELSE "continue"]

\* chunkedCopy after dst.Write returned (nw, ew) for nr bytes: the count
\* added to total and what the loop does next ("continue", or the error
\* chunkedCopy returns).
WriteOutcome(nr, nw, ew) ==
    LET bad == nw < 0 \/ nr < nw
        nw2 == IF bad THEN 0 ELSE nw
        ew2 == IF bad /\ ew = "nil" THEN "short" ELSE ew
    IN [add |-> nw2,
        ret |-> IF ew2 # "nil" THEN ew2
                ELSE IF nr # nw2 THEN "short"
                ELSE "continue"]

\* chunkedCopy: if er != nil { if er != io.EOF { return total, er }; break }
\* "loop", or the error chunkedCopy returns ("nil" after the break).
AfterRead(er) == IF er = "nil" THEN "loop" ELSE IF er = "EOF" THEN "nil" ELSE "err"

\* chunkedCopy: one src.Read(buf[:chunkSize]) with a fresh chunk size.
CopyRead(d) ==
    /\ cpc[d] = "read"
    /\ reads < MaxReads
    /\ \E chunkSize \in ChunkSizes :
         \E r \in ReadResults(From(d), chunkSize) :
            LET nr == r[1]
                er == r[2]
                pos == epPos[From(d)]
            IN /\ epPos' = [epPos EXCEPT ![From(d)] = pos + nr]
               /\ cbuf' = [cbuf EXCEPT ![d] = <<From(d), pos, pos + nr>>]
               /\ cer' = [cer EXCEPT ![d] = er]
               /\ reads' = reads + 1
               /\ IF nr > 0
                    THEN /\ cpc' = [cpc EXCEPT ![d] = "write"]
                         /\ UNCHANGED cret
                    ELSE IF AfterRead(er) = "loop"
                    THEN UNCHANGED <<cpc, cret>>
                    ELSE /\ cpc' = [cpc EXCEPT ![d] = "once"]
                         /\ cret' = [cret EXCEPT ![d] = AfterRead(er)]
    /\ UNCHANGED <<epLen, epEOF, epOut, epCloses, ctotal, cwfail, once, wg,
                   pipePc, sent, received>>
    /\ UNCHANGED nonPipeVars

\* chunkedCopy: dst.Write(buf[0:nr]), the accounting, the delay, and the
\* test of the error the Read had returned.
CopyWrite(d) ==
    /\ cpc[d] = "write"
    /\ \E w \in WriteResults(To(d), SegLen(cbuf[d])) :
         LET nr == SegLen(cbuf[d])
             out == WriteOutcome(nr, w[1], w[2])
             next == IF out.ret # "continue" THEN out.ret ELSE AfterRead(cer[d])
         IN /\ epOut' = [epOut EXCEPT ![To(d)] =
                  AppendBytes(@, <<cbuf[d][1], cbuf[d][2], cbuf[d][2] + w[1]>>)]
            /\ ctotal' = [ctotal EXCEPT ![d] = @ + out.add]
            /\ cwfail' = [cwfail EXCEPT ![d] = @ \/ w[1] < nr]
            /\ IF next = "loop"
                 THEN /\ cpc' = [cpc EXCEPT ![d] = "read"]
                      /\ UNCHANGED cret
                 ELSE /\ cpc' = [cpc EXCEPT ![d] = "once"]
                      /\ cret' = [cret EXCEPT ![d] = next]
    /\ UNCHANGED <<epLen, epEOF, epPos, epCloses, cbuf, cer, reads, once, wg,
                   pipePc, sent, received>>
    /\ UNCHANGED nonPipeVars

\* Mutant of OnceDoBody: a plain call of close instead of o.Do(close).
OnceDoBody_NoOnce(d) ==
    /\ cpc' = [cpc EXCEPT ![d] = "closeSrc"]
    /\ once' = "running"

\* o.Do(close): the first caller runs close; a later caller returns once
\* close has finished and waits while it is running.
OnceDoBody(d) ==
    /\ once # "running"
    /\ IF once = "idle"
         THEN /\ cpc' = [cpc EXCEPT ![d] = "closeSrc"]
              /\ once' = "running"
         ELSE /\ cpc' = [cpc EXCEPT ![d] = "wgdone"]
              /\ UNCHANGED once

\* Pipe's goroutine: chunkedCopy has returned, its count is stored in
\* received or sent; o.Do(close).
OnceDo(d) ==
    /\ cpc[d] = "once"
    /\ OnceDoBody(d)
    /\ sent' = IF d = "sent" THEN ctotal[d] ELSE sent
    /\ received' = IF d = "received" THEN ctotal[d] ELSE received
    /\ UNCHANGED <<epLen, epEOF, epPos, epOut, epCloses, cbuf, cer, ctotal,
                   cret, cwfail, reads, wg, pipePc>>
    /\ UNCHANGED nonPipeVars

\* close: src.Close()
CloseSrc(d) ==
    /\ cpc[d] = "closeSrc"
    /\ epCloses' = [epCloses EXCEPT !["src"] = @ + 1]
    /\ cpc' = [cpc EXCEPT ![d] = "closeDst"]
    /\ UNCHANGED <<epLen, epEOF, epPos, epOut, cbuf, cer, ctotal, cret, cwfail,
                   reads, once, wg, pipePc, sent, received>>
    /\ UNCHANGED nonPipeVars

\* close: dst.Close(); o.Do returns.
CloseDst(d) ==
    /\ cpc[d] = "closeDst"
    /\ epCloses' = [epCloses EXCEPT !["dst"] = @ + 1]
    /\ once' = "done"
    /\ cpc' = [cpc EXCEPT ![d] = "wgdone"]
    /\ UNCHANGED <<epLen, epEOF, epPos, epOut, cbuf, cer, ctotal, cret, cwfail,
                   reads, wg, pipePc, sent, received>>
    /\ UNCHANGED nonPipeVars

\* Pipe's goroutine: wg.Done()
WgDone(d) ==
    /\ cpc[d] = "wgdone"
    /\ wg' = wg - 1
    /\ cpc' = [cpc EXCEPT ![d] = "finished"]
    /\ UNCHANGED <<epLen, epEOF, epPos, epOut, epCloses, cbuf, cer, ctotal,
                   cret, cwfail, reads, once, pipePc, sent, received>>
    /\ UNCHANGED nonPipeVars

\* Pipe: wg.Wait() returns; return sent, received
PipeReturn ==
    /\ pipePc = "wait"
    /\ wg = 0
    /\ pipePc' = "returned"
    /\ UNCHANGED <<epLen, epEOF, epPos, epOut, epCloses, cpc, cbuf, cer, ctotal,
                   cret, cwfail, reads, once, wg, sent, received>>
    /\ UNCHANGED nonPipeVars

PipeNext ==
    \/ \E d \in Dirs :
         \/ CopyRead(d)
         \/ CopyWrite(d)
         \/ OnceDo(d)
         \/ CloseSrc(d)
         \/ CloseDst(d)
         \/ WgDone(d)
    \/ PipeReturn

(***************************************************************************)
(* Tunnel.keepAliveLoop (tunnel/tunnel.go).  Durations are in the unit of  *)
(* time.Duration.  The random number of one iteration is r / rngScale.     *)
(***************************************************************************)

\* Bound of the model: pings sent by one keepAliveLoop.
MaxPings == 2

\* The sessions whose keepAliveLoop is followed; for the others the close of
\* the connection by their loop is the step ConnClose.
KaSessions == {1}

\* t.Config.KeepAlive: off, 5 and 1000.
KeepAlives == {0, 5, 1000}

\* rng.Float64() is r / rngScale for r in RngFloats: 0, a half, just below 1.
rngScale == 1000
RngFloats == {0, 500, 999}

\* The body `pong`, and the bodies a reply to "ping" can carry.
Pong == <<"p", "o", "n", "g">>
PingBodies == {<<>>, Pong, <<"p", "o", "n">>}

KaInit ==
    /\ keepAlive \in KeepAlives
    /\ kaPc = [s \in KaSessions |-> "none"]
    /\ kaSleep = [s \in KaSessions |-> 0]
    /\ kaLast = [s \in KaSessions |-> [err |-> FALSE, body |-> <<>>]]
    /\ kaPings = [s \in KaSessions |-> 0]
    /\ kaClosedIt = [s \in KaSessions |-> FALSE]

KaIdle ==
    /\ keepAlive = 0
    /\ kaPc = [s \in KaSessions |-> "none"]
    /\ kaSleep = [s \in KaSessions |-> 0]
    /\ kaLast = [s \in KaSessions |-> [err |-> FALSE, body |-> <<>>]]
    /\ kaPings = [s \in KaSessions |-> 0]
    /\ kaClosedIt = [s \in KaSessions |-> FALSE]

\* Mutant of ActualDuration: the jitter is 100% of the interval.
ActualDuration_FullJitter(K, r) ==
    LET jittered == (10 * K * rngScale + (2 * r - rngScale) * 10 * K)
                        \div (10 * rngScale)
        minDuration == K \div 10
    IN IF jittered < minDuration THEN minDuration ELSE jittered

\* actualDuration of one iteration: K plus a jitter of (2f - 1) * 0.30 * K
\* with f = r / rngScale, converted to time.Duration (the fraction is cut
\* off), and not less than time.Duration(K * 0.1).
ActualDuration(K, r) ==
    LET jittered == (10 * K * rngScale + (2 * r - rngScale) * 3 * K)
                        \div (10 * rngScale)
        minDuration == K \div 10
    IN IF jittered < minDuration THEN minDuration ELSE jittered

\* Mutant of PingBad: the body of the reply is not looked at.
PingBad_ErrOnly(res) == res.err

\* if err != nil { break }
\* if len(b) > 0 && !bytes.Equal(b, []byte("pong")) { break }
PingBad(res) == res.err \/ (Len(res.body) > 0 /\ res.body # Pong)

\* What sshConn.SendRequest("ping", true, nil) returns: an error once the
\* connection is closed, else an error or a reply.
PingResults(s) ==
    IF connClosed[s] THEN {[err |-> TRUE, body |-> <<>>]}
    ELSE {[err |-> TRUE, body |-> <<>>]}
         \cup {[err |-> FALSE, body |-> b] : b \in PingBodies}

\* go t.keepAliveLoop(c), started by BindSSH when KeepAlive > 0, begins to
\* run.
KaStart(s) ==
    /\ ~panicked
    /\ keepAlive > 0
    /\ bpc[s] \in {"waiting", "added", "returned"}
    /\ kaPc[s] = "none"
    /\ kaPc' = [kaPc EXCEPT ![s] = "top"]
    /\ UNCHANGED <<keepAlive, kaSleep, kaLast, kaPings, kaClosedIt>>
    /\ UNCHANGED tunnelVars
    /\ UNCHANGED nonTunnelKaVars

\* The top of the loop: the duration is computed and time.Sleep returns.
KaSleep(s) ==
    /\ ~panicked
    /\ kaPc[s] = "top"
    /\ kaPings[s] < MaxPings
    /\ \E r \in RngFloats :
         kaSleep' = [kaSleep EXCEPT ![s] = ActualDuration(keepAlive, r)]
    /\ kaPc' = [kaPc EXCEPT ![s] = "ping"]
    /\ UNCHANGED <<keepAlive, kaLast, kaPings, kaClosedIt>>
    /\ UNCHANGED tunnelVars
    /\ UNCHANGED nonTunnelKaVars

\* sshConn.SendRequest("ping", true, nil) and the two tests of its result.
KaPing(s) ==
    /\ ~panicked
    /\ kaPc[s] = "ping"
    /\ \E res \in PingResults(s) :
         /\ kaLast' = [kaLast EXCEPT ![s] = res]
         /\ kaPc' = [kaPc EXCEPT ![s] = IF PingBad(res) THEN "close" ELSE "top"]
    /\ kaPings' = [kaPings EXCEPT ![s] = kaPings[s] + 1]
    /\ UNCHANGED <<keepAlive, kaSleep, kaClosedIt>>
    /\ UNCHANGED tunnelVars
    /\ UNCHANGED nonTunnelKaVars

\* After the loop: sshConn.Close(), and keepAliveLoop returns.
KaClose(s) ==
    /\ ~panicked
    /\ kaPc[s] = "close"
    /\ connClosed' = [connClosed EXCEPT ![s] = TRUE]
    /\ kaClosedIt' = [kaClosedIt EXCEPT ![s] = ~connClosed[s]]
    /\ kaPc' = [kaPc EXCEPT ![s] = "done"]
    /\ UNCHANGED <<keepAlive, kaSleep, kaLast, kaPings>>
    /\ UNCHANGED <<activeConn, activatingN, bpc, wpc, bctx, panicked,
                   gpc, gctx, gres, gvia, gCallConn, gGap, gStored, gCleared>>
    /\ UNCHANGED nonTunnelKaVars

\* BindSSH with the keepalive loop of its session.
KeepAliveNext ==
    \/ \E s \in Sessions :
         \/ BindSSHCall(s)
         \/ BindStore(s)
         \/ BindDone(s)
         \/ BindWaitReturn(s)
         \/ BindClear(s)
         \/ BindCtxCancel(s)
         \/ ConnClose(s)
         \/ WatcherClose(s)
         \/ WatcherDoneAll(s)
    \/ \E s \in KaSessions :
         \/ KaStart(s)
         \/ KaSleep(s)
         \/ KaPing(s)
         \/ KaClose(s)

\* The goroutines run: a step of BindSSH or of keepAliveLoop that can be
\* taken is taken eventually.  Nothing forces a cancel, the end of a
\* connection or a new session.
KeepAliveFairness ==
    /\ \A s \in Sessions :
         /\ WF_vars(BindStore(s))
         /\ WF_vars(BindDone(s))
         /\ WF_vars(BindWaitReturn(s))
         /\ WF_vars(BindClear(s))
    /\ \A s \in KaSessions :
         /\ WF_vars(KaStart(s))
         /\ WF_vars(KaPing(s))
         /\ WF_vars(KaClose(s))

(***************************************************************************)
(* Tunnel.BindRemotes (tunnel/tunnel.go) with NewProxy and Proxy.Run       *)
(* (tunnel/proxy.go).  An error is a pair <<kind, proxy>>.                 *)
(***************************************************************************)

\* Bound of the model: remotes given to one BindRemotes call.
MaxRemotes == 3

Remotes == 1..MaxRemotes

\* t.proxyCount when BindRemotes is called: none or two proxies made before.
ProxyCounts == {0, 2}

NoErr == <<"none", 0>>
NilErr == <<"nil", 0>>

BrInit ==
    /\ brN \in 0..MaxRemotes
    /\ brInbound \in BOOLEAN
    /\ proxyCount \in ProxyCounts
    /\ brCount0 = proxyCount
    /\ brPc = "idle"
    /\ brI = 0
    /\ brCtx = FALSE
    /\ brListeners = {}
    /\ brIds = [i \in Remotes |-> 0]
    /\ prPc = [i \in Remotes |-> "none"]
    /\ prErr = [i \in Remotes |-> NoErr]
    /\ egErr = NilErr
    /\ egCtx = FALSE
    /\ brFirst = 0
    /\ brRet = NoErr

BrIdle ==
    /\ brN = 0
    /\ brInbound = FALSE
    /\ proxyCount = 0
    /\ brCount0 = 0
    /\ brPc = "idle"
    /\ brI = 0
    /\ brCtx = FALSE
    /\ brListeners = {}
    /\ brIds = [i \in Remotes |-> 0]
    /\ prPc = [i \in Remotes |-> "none"]
    /\ prErr = [i \in Remotes |-> NoErr]
    /\ egErr = NilErr
    /\ egCtx = FALSE
    /\ brFirst = 0
    /\ brRet = NoErr

\* Mutant of EgKeep: a later error replaces the one kept.
EgKeep_Last(old, new) == IF new # NilErr THEN new ELSE old

\* g.errOnce.Do(func() { g.err = err; g.cancel() }) of errgroup: the error
\* the group keeps after a goroutine returned new.
EgKeep(old, new) == IF new # NilErr /\ old = NilErr THEN new ELSE old

\* Mutant of RemotesCheck: the inbound test is left out.
RemotesCheck_NoInbound(n, inbound) ==
    IF n = 0 THEN <<"no remotes", 0>> ELSE NilErr

\* if len(remotes) == 0 { return errors.New("no remotes") }
\* if !t.Inbound { return errors.New("inbound connections blocked") }
RemotesCheck(n, inbound) ==
    IF n = 0 THEN <<"no remotes", 0>>
    ELSE IF ~inbound THEN <<"inbound connections blocked", 0>>
    ELSE NilErr

\* The caller's ctx is canceled.
BrCancel ==
    /\ ~brCtx
    /\ brPc # "returned"
    /\ brCtx' = TRUE
    /\ egCtx' = TRUE
    /\ UNCHANGED <<brN, brInbound, proxyCount, brCount0, brPc, brI,
                   brListeners, brIds, prPc, prErr, egErr, brFirst, brRet>>
    /\ UNCHANGED nonBrVars

\* BindRemotes is called: the two tests.
BindRemotesCall ==
    /\ brPc = "idle"
    /\ LET err == RemotesCheck(brN, brInbound)
       IN IF err # NilErr
            THEN brRet' = err /\ brPc' = "returned"
            ELSE brPc' = "create" /\ UNCHANGED brRet
    /\ UNCHANGED <<brN, brInbound, proxyCount, brCount0, brI, brCtx,
                   brListeners, brIds, prPc, prErr, egErr, egCtx, brFirst>>
    /\ UNCHANGED nonBrVars

\* Mutant of BindRemotesNewProxy: when NewProxy fails, the proxies made
\* before it are run all the same.
BindRemotesNewProxy_RunBound ==
    /\ brPc = "create"
    /\ brI < brN
    /\ \E ok \in BOOLEAN :
         IF ok
           THEN /\ brListeners' = brListeners \cup {brI + 1}
                /\ brIds' = [brIds EXCEPT ![brI + 1] = proxyCount + 1]
                /\ proxyCount' = proxyCount + 1
                /\ brI' = brI + 1
                /\ UNCHANGED <<brPc, brRet, prPc>>
           ELSE /\ brRet' = <<"listen", brI + 1>>
                /\ brPc' = "returned"
                /\ prPc' = [i \in Remotes |->
                              IF i <= brI THEN "running" ELSE "none"]
                /\ UNCHANGED <<brListeners, brIds, proxyCount, brI>>
    /\ UNCHANGED <<brN, brInbound, brCount0, brCtx, prErr, egErr, egCtx,
                   brFirst>>
    /\ UNCHANGED nonBrVars

\* One iteration of the first loop: NewProxy(t.Logger, t, t.proxyCount,
\* remote) binds the listener of the proxy, or fails and BindRemotes returns
\* the error.
BindRemotesNewProxy ==
    /\ brPc = "create"
    /\ brI < brN
    /\ \E ok \in BOOLEAN :
         IF ok
           THEN /\ brListeners' = brListeners \cup {brI + 1}
                /\ brIds' = [brIds EXCEPT ![brI + 1] = proxyCount + 1]
                /\ proxyCount' = proxyCount + 1
                /\ brI' = brI + 1
                /\ UNCHANGED <<brPc, brRet>>
           ELSE /\ brRet' = <<"listen", brI + 1>>
                /\ brPc' = "returned"
                /\ UNCHANGED <<brListeners, brIds, proxyCount, brI>>
    /\ UNCHANGED <<brN, brInbound, brCount0, brCtx, prPc, prErr, egErr, egCtx,
                   brFirst>>
    /\ UNCHANGED nonBrVars

\* eg, ctx := errgroup.WithContext(ctx) and the second loop: one goroutine
\* per proxy calls p.Run(ctx); then eg.Wait().
BindRemotesGo ==
    /\ brPc = "create"
    /\ brI = brN
    /\ prPc' = [i \in Remotes |-> IF i <= brN THEN "running" ELSE "none"]
    /\ brPc' = "wait"
    /\ UNCHANGED <<brN, brInbound, proxyCount, brCount0, brI, brCtx,
                   brListeners, brIds, prErr, egErr, egCtx, brFirst, brRet>>
    /\ UNCHANGED nonBrVars

\* p.Run(ctx) of proxy i returns: nil once ctx is done (the listener was
\* closed by the goroutine that waits for ctx), the Accept error while ctx is
\* not done (nothing closes the listener then).
ProxyRunReturn(i) ==
    /\ prPc[i] = "running"
    /\ prErr' = [prErr EXCEPT ![i] = IF egCtx THEN NilErr ELSE <<"run", i>>]
    /\ prPc' = [prPc EXCEPT ![i] = "ran"]
    /\ brListeners' = IF egCtx THEN brListeners \ {i} ELSE brListeners
    /\ UNCHANGED <<brN, brInbound, proxyCount, brCount0, brPc, brI, brCtx,
                   brIds, egErr, egCtx, brFirst, brRet>>
    /\ UNCHANGED nonBrVars

\* The errgroup goroutine of proxy i after Run returned: the first error is
\* kept and cancels the ctx of the group; the goroutine is done.
EgDone(i) ==
    /\ prPc[i] = "ran"
    /\ egErr' = EgKeep(egErr, prErr[i])
    /\ egCtx' = (egCtx \/ prErr[i] # NilErr)
    /\ brFirst' = IF prErr[i] # NilErr /\ brFirst = 0 THEN i ELSE brFirst
    /\ prPc' = [prPc EXCEPT ![i] = "returned"]
    /\ UNCHANGED <<brN, brInbound, proxyCount, brCount0, brPc, brI, brCtx,
                   brListeners, brIds, prErr, brRet>>
    /\ UNCHANGED nonBrVars

\* err := eg.Wait(); return err
BindRemotesReturn ==
    /\ brPc = "wait"
    /\ \A i \in 1..brN : prPc[i] = "returned"
    /\ brRet' = egErr
    /\ brPc' = "returned"
    /\ UNCHANGED <<brN, brInbound, proxyCount, brCount0, brI, brCtx,
                   brListeners, brIds, prPc, prErr, egErr, egCtx, brFirst>>
    /\ UNCHANGED nonBrVars

BindRemotesNext ==
    \/ BrCancel
    \/ BindRemotesCall
    \/ BindRemotesNewProxy
    \/ BindRemotesGo
    \/ \E i \in Remotes : ProxyRunReturn(i) \/ EgDone(i)
    \/ BindRemotesReturn

(***************************************************************************)
(* The goroutines of a Tunnel and of one of its proxies (tunnel/tunnel.go, *)
(* tunnel/proxy.go): where each is started and what lets it return.        *)
(***************************************************************************)

\* Bounds of the model: ticks of the health-check ticker that are followed,
\* and getSSH callers (forwarded connections).
MaxTicks == 1
MaxCallers == 1

Callers == 1..MaxCallers

\* New: t.activatingConn.Add(1); if c.KeepAlive > 0 the ticker is made and
\* go t.connectionPoolHealthCheck() is started.
LfInit ==
    /\ hasKeepAlive \in BOOLEAN
    /\ healthPc = IF hasKeepAlive THEN "running" ELSE "none"
    /\ healthTicks = 0
    /\ rootCtx = FALSE
    /\ sessCtx = FALSE
    /\ sessPc = "idle"
    /\ sessClosed = FALSE
    /\ sessActive = FALSE
    /\ latchN = wgAdd(0, 1)
    /\ watchPc = "none"
    /\ kaLoopPc = "none"
    /\ handlersN = 0
    /\ lfRunPc = "idle"
    /\ lfDone = FALSE
    /\ lfTcpClosed = FALSE
    /\ lfCloserPc = "none"
    /\ lfWorkers = 0
    /\ callPc = [c \in Callers |-> "none"]
    /\ latchPc = [c \in Callers |-> "none"]

LfIdle ==
    /\ hasKeepAlive = FALSE
    /\ healthPc = "none"
    /\ healthTicks = 0
    /\ rootCtx = FALSE
    /\ sessCtx = FALSE
    /\ sessPc = "idle"
    /\ sessClosed = FALSE
    /\ sessActive = FALSE
    /\ latchN = wgAdd(0, 1)
    /\ watchPc = "none"
    /\ kaLoopPc = "none"
    /\ handlersN = 0
    /\ lfRunPc = "idle"
    /\ lfDone = FALSE
    /\ lfTcpClosed = FALSE
    /\ lfCloserPc = "none"
    /\ lfWorkers = 0
    /\ callPc = [c \in Callers |-> "none"]
    /\ latchPc = [c \in Callers |-> "none"]

lfTunnelVars == <<sessCtx, sessPc, sessClosed, sessActive, latchN, watchPc,
                  kaLoopPc, handlersN>>
lfProxyVars == <<lfRunPc, lfDone, lfTcpClosed, lfCloserPc, lfWorkers>>
lfCallVars == <<callPc, latchPc>>

\* The ctx given to BindSSH, Run and getSSH is done: the root ctx is
\* canceled, or for BindSSH the ctx connectionOnce derived from it.
SessCtxDone == rootCtx \/ sessCtx

\* The root context is canceled.
RootCancel ==
    /\ ~rootCtx
    /\ rootCtx' = TRUE
    /\ UNCHANGED <<hasKeepAlive, healthPc, healthTicks>>
    /\ UNCHANGED <<lfTunnelVars, lfProxyVars, lfCallVars>>
    /\ UNCHANGED nonLfVars

\* connectionPoolHealthCheck: one iteration of for range t.healthCheck.C.
\* Nothing stops the ticker or closes its channel, and the loop has no other
\* way out.
HealthCheckTick ==
    /\ healthPc = "running"
    /\ healthTicks < MaxTicks
    /\ healthTicks' = healthTicks + 1
    /\ UNCHANGED <<hasKeepAlive, healthPc, rootCtx>>
    /\ UNCHANGED <<lfTunnelVars, lfProxyVars, lfCallVars>>
    /\ UNCHANGED nonLfVars

\* BindSSH up to c.Wait(): the watcher goroutine, the store of activeConn,
\* t.activatingConn.Done(), the keepalive loop when KeepAlive > 0 and the
\* two handler goroutines.
LfBindSSH ==
    /\ sessPc = "idle"
    /\ sessPc' = "bound"
    /\ watchPc' = "waiting"
    /\ sessActive' = TRUE
    /\ latchN' = wgDone(latchN)
    /\ kaLoopPc' = IF hasKeepAlive THEN "running" ELSE "none"
    /\ handlersN' = 2
    /\ UNCHANGED <<sessCtx, sessClosed>>
    /\ UNCHANGED <<hasKeepAlive, healthPc, healthTicks, rootCtx>>
    /\ UNCHANGED <<lfProxyVars, lfCallVars>>
    /\ UNCHANGED nonLfVars

\* The peer ends the ssh connection.
LfPeerClose ==
    /\ sessPc = "bound"
    /\ ~sessClosed
    /\ sessClosed' = TRUE
    /\ UNCHANGED <<sessCtx, sessPc, sessActive, latchN, watchPc, kaLoopPc,
                   handlersN>>
    /\ UNCHANGED <<hasKeepAlive, healthPc, healthTicks, rootCtx>>
    /\ UNCHANGED <<lfProxyVars, lfCallVars>>
    /\ UNCHANGED nonLfVars

\* The watcher goroutine of BindSSH: <-ctx.Done(); c.Close()
LfWatcherClose ==
    /\ watchPc = "waiting"
    /\ SessCtxDone
    /\ watchPc' = "closed"
    /\ sessClosed' = TRUE
    /\ UNCHANGED <<sessCtx, sessPc, sessActive, latchN, kaLoopPc, handlersN>>
    /\ UNCHANGED <<hasKeepAlive, healthPc, healthTicks, rootCtx>>
    /\ UNCHANGED <<lfProxyVars, lfCallVars>>
    /\ UNCHANGED nonLfVars

\* The watcher goroutine of BindSSH: t.activatingConn.DoneAll(), and it ends.
LfWatcherDoneAll ==
    /\ watchPc = "closed"
    /\ watchPc' = "exited"
    /\ latchN' = wgDoneAll(latchN)
    /\ UNCHANGED <<sessCtx, sessPc, sessClosed, sessActive, kaLoopPc, handlersN>>
    /\ UNCHANGED <<hasKeepAlive, healthPc, healthTicks, rootCtx>>
    /\ UNCHANGED <<lfProxyVars, lfCallVars>>
    /\ UNCHANGED nonLfVars

\* keepAliveLoop leaves its for: a ping failed because the connection is
\* closed, or a ping on the open connection failed or was answered badly;
\* then sshConn.Close().
LfKeepAliveExit ==
    /\ kaLoopPc = "running"
    /\ kaLoopPc' = "exited"
    /\ sessClosed' = TRUE
    /\ UNCHANGED <<sessCtx, sessPc, sessActive, latchN, watchPc, handlersN>>
    /\ UNCHANGED <<hasKeepAlive, healthPc, healthTicks, rootCtx>>
    /\ UNCHANGED <<lfProxyVars, lfCallVars>>
    /\ UNCHANGED nonLfVars

\* handleSSHRequests or handleSSHChannels returns: its channel is closed
\* when the ssh connection is.
LfHandlerExit ==
    /\ handlersN > 0
    /\ sessClosed
    /\ handlersN' = handlersN - 1
    /\ UNCHANGED <<sessCtx, sessPc, sessClosed, sessActive, latchN, watchPc,
                   kaLoopPc>>
    /\ UNCHANGED <<hasKeepAlive, healthPc, healthTicks, rootCtx>>
    /\ UNCHANGED <<lfProxyVars, lfCallVars>>
    /\ UNCHANGED nonLfVars

\* BindSSH after c.Wait() returned: t.activatingConn.Add(1), activeConn is
\* cleared, return err.
LfBindReturn ==
    /\ sessPc = "bound"
    /\ sessClosed
    /\ sessPc' = "returned"
    /\ latchN' = wgAdd(latchN, 1)
    /\ sessActive' = FALSE
    /\ UNCHANGED <<sessCtx, sessClosed, watchPc, kaLoopPc, handlersN>>
    /\ UNCHANGED <<hasKeepAlive, healthPc, healthTicks, rootCtx>>
    /\ UNCHANGED <<lfProxyVars, lfCallVars>>
    /\ UNCHANGED nonLfVars

\* connectionOnce returns after BindSSH: its deferred cancel().
LfDeferCancel ==
    /\ sessPc = "returned"
    /\ ~sessCtx
    /\ sessCtx' = TRUE
    /\ UNCHANGED <<sessPc, sessClosed, sessActive, latchN, watchPc, kaLoopPc,
                   handlersN>>
    /\ UNCHANGED <<hasKeepAlive, healthPc, healthTicks, rootCtx>>
    /\ UNCHANGED <<lfProxyVars, lfCallVars>>
    /\ UNCHANGED nonLfVars

\* runTCP starts: the listener-closer goroutine and the connectionWorker
\* goroutines, then the Accept loop.
LfRunTCP ==
    /\ lfRunPc = "idle"
    /\ lfRunPc' = "running"
    /\ lfCloserPc' = "waiting"
    /\ lfWorkers' = numWorkers
    /\ UNCHANGED <<lfDone, lfTcpClosed>>
    /\ UNCHANGED <<hasKeepAlive, healthPc, healthTicks, rootCtx>>
    /\ UNCHANGED <<lfTunnelVars, lfCallVars>>
    /\ UNCHANGED nonLfVars

\* The closer goroutine: case <-ctx.Done(): p.tcp.Close()
LfCloserOnCtx ==
    /\ lfCloserPc = "waiting"
    /\ rootCtx
    /\ lfCloserPc' = "exited"
    /\ lfTcpClosed' = TRUE
    /\ UNCHANGED <<lfRunPc, lfDone, lfWorkers>>
    /\ UNCHANGED <<hasKeepAlive, healthPc, healthTicks, rootCtx>>
    /\ UNCHANGED <<lfTunnelVars, lfCallVars>>
    /\ UNCHANGED nonLfVars

\* The closer goroutine: case <-done:
LfCloserOnDone ==
    /\ lfCloserPc = "waiting"
    /\ lfDone
    /\ lfCloserPc' = "exited"
    /\ UNCHANGED <<lfRunPc, lfDone, lfTcpClosed, lfWorkers>>
    /\ UNCHANGED <<hasKeepAlive, healthPc, healthTicks, rootCtx>>
    /\ UNCHANGED <<lfTunnelVars, lfCallVars>>
    /\ UNCHANGED nonLfVars

\* Accept fails because the listener was closed: close(done); return
LfAcceptClosed ==
    /\ lfRunPc = "running"
    /\ lfTcpClosed
    /\ lfRunPc' = "returned"
    /\ lfDone' = TRUE
    /\ UNCHANGED <<lfTcpClosed, lfCloserPc, lfWorkers>>
    /\ UNCHANGED <<hasKeepAlive, healthPc, healthTicks, rootCtx>>
    /\ UNCHANGED <<lfTunnelVars, lfCallVars>>
    /\ UNCHANGED nonLfVars

\* Accept fails on the open listener: close(done); return err
LfAcceptError ==
    /\ lfRunPc = "running"
    /\ ~lfTcpClosed
    /\ lfRunPc' = "returned"
    /\ lfDone' = TRUE
    /\ UNCHANGED <<lfTcpClosed, lfCloserPc, lfWorkers>>
    /\ UNCHANGED <<hasKeepAlive, healthPc, healthTicks, rootCtx>>
    /\ UNCHANGED <<lfTunnelVars, lfCallVars>>
    /\ UNCHANGED nonLfVars

\* A connectionWorker returns: case <-ctx.Done() or case <-done.
LfWorkerExit ==
    /\ lfWorkers > 0
    /\ rootCtx \/ lfDone
    /\ lfWorkers' = lfWorkers - 1
    /\ UNCHANGED <<lfRunPc, lfDone, lfTcpClosed, lfCloserPc>>
    /\ UNCHANGED <<hasKeepAlive, healthPc, healthTicks, rootCtx>>
    /\ UNCHANGED <<lfTunnelVars, lfCallVars>>
    /\ UNCHANGED nonLfVars

\* pipeRemote of an accepted connection calls getSSH: isDone(ctx) returns
\* nil at once, otherwise activeConn is read.
LfGetSSH(c) ==
    /\ callPc[c] = "none"
    /\ lfRunPc = "running"
    /\ callPc' = [callPc EXCEPT ![c] = IF rootCtx THEN "done" ELSE "read"]
    /\ UNCHANGED latchPc
    /\ UNCHANGED <<hasKeepAlive, healthPc, healthTicks, rootCtx>>
    /\ UNCHANGED <<lfTunnelVars, lfProxyVars>>
    /\ UNCHANGED nonLfVars

\* getSSH: c := t.activeConn; if c != nil { return c }; otherwise the select
\* with the goroutine of activatingConnWait.
LfGetSSHRead(c) ==
    /\ callPc[c] = "read"
    /\ IF sessActive
         THEN /\ callPc' = [callPc EXCEPT ![c] = "done"]
              /\ UNCHANGED latchPc
         ELSE /\ callPc' = [callPc EXCEPT ![c] = "select"]
              /\ latchPc' = [latchPc EXCEPT ![c] = "blocked"]
    /\ UNCHANGED <<hasKeepAlive, healthPc, healthTicks, rootCtx>>
    /\ UNCHANGED <<lfTunnelVars, lfProxyVars>>
    /\ UNCHANGED nonLfVars

\* The goroutine of activatingConnWait: t.activatingConn.Wait() returns,
\* close(ch), and it ends.
LfLatchReturn(c) ==
    /\ latchPc[c] = "blocked"
    /\ wgWaitReturns(latchN)
    /\ latchPc' = [latchPc EXCEPT ![c] = "exited"]
    /\ UNCHANGED callPc
    /\ UNCHANGED <<hasKeepAlive, healthPc, healthTicks, rootCtx>>
    /\ UNCHANGED <<lfTunnelVars, lfProxyVars>>
    /\ UNCHANGED nonLfVars

\* getSSH's select returns: ctx is done, the SSH_WAIT timer fired, or ch was
\* closed.
LfGetSSHReturn(c) ==
    /\ callPc[c] = "select"
    /\ callPc' = [callPc EXCEPT ![c] = "done"]
    /\ UNCHANGED latchPc
    /\ UNCHANGED <<hasKeepAlive, healthPc, healthTicks, rootCtx>>
    /\ UNCHANGED <<lfTunnelVars, lfProxyVars>>
    /\ UNCHANGED nonLfVars

LifetimeNext ==
    \/ RootCancel
    \/ HealthCheckTick
    \/ LfBindSSH
    \/ LfPeerClose
    \/ LfWatcherClose
    \/ LfWatcherDoneAll
    \/ LfKeepAliveExit
    \/ LfHandlerExit
    \/ LfBindReturn
    \/ LfDeferCancel
    \/ LfRunTCP
    \/ LfCloserOnCtx
    \/ LfCloserOnDone
    \/ LfAcceptClosed
    \/ LfAcceptError
    \/ LfWorkerExit
    \/ \E c \in Callers :
         \/ LfGetSSH(c)
         \/ LfGetSSHRead(c)
         \/ LfLatchReturn(c)
         \/ LfGetSSHReturn(c)

\* Every goroutine that can take a step takes it: the scheduler of Go runs
\* every runnable goroutine, timers fire, closed connections fail their
\* readers.
LifetimeFairness ==
    /\ WF_vars(HealthCheckTick)
    /\ WF_vars(LfWatcherClose)
    /\ WF_vars(LfWatcherDoneAll)
    /\ WF_vars(LfKeepAliveExit)
    /\ WF_vars(LfHandlerExit)
    /\ WF_vars(LfBindReturn)
    /\ WF_vars(LfDeferCancel)
    /\ WF_vars(LfCloserOnCtx)
    /\ WF_vars(LfCloserOnDone)
    /\ WF_vars(LfAcceptClosed)
    /\ WF_vars(LfWorkerExit)
    /\ \A c \in Callers :
         /\ WF_vars(LfGetSSHRead(c))
         /\ WF_vars(LfLatchReturn(c))
         /\ WF_vars(LfGetSSHReturn(c))

(***************************************************************************)
(* Forwarded connections: Proxy.pipeRemote (tunnel/proxy.go) with cio.Pipe *)
(* (share/cio/pipe.go), several of them over one session.                  *)
(***************************************************************************)

\* Bound of the model: forwarded connections accepted by the proxy.
MaxForwards == 2

Forwards == 1..MaxForwards

FcInit ==
    /\ fcPc = [c \in Forwards |-> "none"]
    /\ fcSrcClosed = [c \in Forwards |-> FALSE]
    /\ fcChan = [c \in Forwards |-> "none"]
    /\ fcEnd = [c \in Forwards |-> "none"]
    /\ fcActive = NoConn
    /\ fcSessClosed = FALSE
    /\ fcFailed = 0
    /\ fcPool = 0
    /\ fcActiveConns = 0

FcIdle == FcInit

\* Mutant of SrcClose: the local streams of all connections are closed.
SrcClose_All(closed, c) == [d \in Forwards |-> TRUE]

\* defer src.Close() of pipeRemote, and src.Close() of Pipe's close.
SrcClose(closed, c) == [closed EXCEPT ![c] = TRUE]

\* BindSSH stores the session: t.activeConn = c
FcBind ==
    /\ fcActive = NoConn
    /\ ~fcSessClosed
    /\ fcActive' = 1
    /\ UNCHANGED <<fcPc, fcSrcClosed, fcChan, fcEnd, fcSessClosed, fcFailed,
                   fcPool, fcActiveConns>>
    /\ UNCHANGED nonFcVars

\* The session ends (the peer, the keepalive loop, the ctx watcher): every
\* channel of it is closed with it.
FcSessionClose ==
    /\ fcActive # NoConn
    /\ ~fcSessClosed
    /\ fcSessClosed' = TRUE
    /\ fcChan' = [c \in Forwards |-> IF fcChan[c] = "open" THEN "closed"
                                     ELSE fcChan[c]]
    /\ UNCHANGED <<fcPc, fcSrcClosed, fcEnd, fcActive, fcFailed, fcPool,
                   fcActiveConns>>
    /\ UNCHANGED nonFcVars

\* BindSSH after c.Wait(): t.activeConn = nil
FcUnbind ==
    /\ fcActive # NoConn
    /\ fcSessClosed
    /\ fcActive' = NoConn
    /\ UNCHANGED <<fcPc, fcSrcClosed, fcChan, fcEnd, fcSessClosed, fcFailed,
                   fcPool, fcActiveConns>>
    /\ UNCHANGED nonFcVars

\* runTCP accepted a connection and found room in the pool:
\* case p.connPool <- struct{}{}: go p.pipeRemote(ctx, src), up to the getSSH
\* call (ActiveConnections is incremented on the way).
FcAccept(c) ==
    /\ fcPc[c] = "none"
    /\ fcPool < maxConns
    /\ fcPc' = [fcPc EXCEPT ![c] = "getssh"]
    /\ fcPool' = fcPool + 1
    /\ fcActiveConns' = fcActiveConns + 1
    /\ UNCHANGED <<fcSrcClosed, fcChan, fcEnd, fcActive, fcSessClosed, fcFailed>>
    /\ UNCHANGED nonFcVars

\* sshConn := p.sshTun.getSSH(ctx); if sshConn == nil { FailedConnections++;
\* return }.  getSSH returns the session stored, or nil when none is stored.
FcGetSSH(c) ==
    /\ fcPc[c] = "getssh"
    /\ IF fcActive = NoConn
         THEN /\ fcPc' = [fcPc EXCEPT ![c] = "done"]
              /\ fcEnd' = [fcEnd EXCEPT ![c] = "no session"]
              /\ fcFailed' = fcFailed + 1
              /\ fcActiveConns' = fcActiveConns - 1
              /\ fcPool' = ReleaseSlot(fcPool)
              /\ fcSrcClosed' = SrcClose(fcSrcClosed, c)
         ELSE /\ fcPc' = [fcPc EXCEPT ![c] = "open"]
              /\ UNCHANGED <<fcEnd, fcFailed, fcSrcClosed, fcPool,
                             fcActiveConns>>
    /\ UNCHANGED <<fcChan, fcActive, fcSessClosed>>
    /\ UNCHANGED nonFcVars

\* dst, reqs, err := sshConn.OpenChannel(...); if err != nil {
\* FailedConnections++; return }.  It fails when the remote cannot dial and
\* always when the session is closed.
FcOpenChannel(c) ==
    /\ fcPc[c] = "open"
    /\ \E ok \in {FALSE, ~fcSessClosed} :
         IF ok
           THEN /\ fcPc' = [fcPc EXCEPT ![c] = "pipe"]
                /\ fcChan' = [fcChan EXCEPT ![c] = "open"]
                /\ UNCHANGED <<fcEnd, fcFailed, fcSrcClosed, fcPool,
                               fcActiveConns>>
           ELSE /\ fcPc' = [fcPc EXCEPT ![c] = "done"]
                /\ fcEnd' = [fcEnd EXCEPT ![c] = "open error"]
                /\ fcFailed' = fcFailed + 1
                /\ fcActiveConns' = fcActiveConns - 1
                /\ fcPool' = ReleaseSlot(fcPool)
                /\ fcSrcClosed' = SrcClose(fcSrcClosed, c)
                /\ UNCHANGED fcChan
    /\ UNCHANGED <<fcActive, fcSessClosed>>
    /\ UNCHANGED nonFcVars

\* cio.Pipe(src, dst) ends: a copy direction met EOF or a Read or Write
\* error, o.Do(close) closed src and dst, both directions returned.
FcPipeEnd(c) ==
    /\ fcPc[c] = "pipe"
    /\ \E how \in {"eof", "pipe error"} :
         fcEnd' = [fcEnd EXCEPT ![c] = how]
    /\ fcPc' = [fcPc EXCEPT ![c] = "done"]
    /\ fcSrcClosed' = SrcClose(fcSrcClosed, c)
    /\ fcChan' = [fcChan EXCEPT ![c] = "closed"]
    /\ fcActiveConns' = fcActiveConns - 1
    /\ fcPool' = ReleaseSlot(fcPool)
    /\ UNCHANGED <<fcActive, fcSessClosed, fcFailed>>
    /\ UNCHANGED nonFcVars

\* connectionWorker: case <-p.connPool (a worker takes a token).
FcWorkerTake ==
    /\ fcPool > 0
    /\ fcPool' = fcPool - 1
    /\ UNCHANGED <<fcPc, fcSrcClosed, fcChan, fcEnd, fcActive, fcSessClosed,
                   fcFailed, fcActiveConns>>
    /\ UNCHANGED nonFcVars

ForwardNext ==
    \/ FcBind
    \/ FcSessionClose
    \/ FcUnbind
    \/ FcWorkerTake
    \/ \E c \in Forwards :
         \/ FcAccept(c)
         \/ FcGetSSH(c)
         \/ FcOpenChannel(c)
         \/ FcPipeEnd(c)

(***************************************************************************)
(* Request headers (share/traffic/headers.go).  An http.Header is a        *)
(* function from its keys to sequences of values.                          *)
(***************************************************************************)

\* var userAgents, languages, origins: the lists, each entry by a short name.
userAgents == <<"Chrome/120 Windows", "Chrome/119 Windows", "Chrome/120 Mac",
                "Firefox/121 Windows", "Safari/17.1 Mac", "Edg/120 Windows">>
languages == <<"en-US", "en-GB", "zh-CN", "ja", "de-DE", "fr-FR", "es-ES">>
origins == <<"google", "github", "stackoverflow", "reddit", "youtube",
             "facebook", "twitter">>

\* The user headers of the model: keys in canonical and other spelling, one
\* or two values.
UserKeys == {"User-Agent", "user-agent", "X-Custom-Header"}
UserVals == {<<"Custom-Agent/1.0">>, <<"custom-value", "second">>}

\* Realistic headers that do not come from GenerateRealisticHeaders.
OtherKeys == {"User-Agent", "Accept"}
OtherVals == {<<"*/*">>, <<>>}

HeaderMaps(keys, vals) == UNION {[D -> vals] : D \in SUBSET keys}

NoHeaders == <<>>

\* h.Get(key) for a canonical key: the first value, "" when there is none.
HeaderGet(h, key) ==
    IF key \in DOMAIN h /\ Len(h[key]) > 0 THEN h[key][1] ELSE ""

\* func GenerateRealisticHeaders() http.Header, with the three values of
\* rng.Intn: every Set stores one value under its key.
GenerateRealisticHeaders(u, l, o) ==
    [k \in {"User-Agent", "Accept", "Accept-Language", "Accept-Encoding",
            "Origin", "Cache-Control", "Pragma"} |->
        CASE k = "User-Agent" -> <<userAgents[u + 1]>>
          [] k = "Accept" -> <<"*/*">>
          [] k = "Accept-Language" -> <<languages[l + 1]>>
          [] k = "Accept-Encoding" -> <<"gzip, deflate, br">>
          [] k = "Origin" -> <<origins[o + 1]>>
          [] k = "Cache-Control" -> <<"no-cache">>
          [] k = "Pragma" -> <<"no-cache">>]

\* Mutant of MergeHeaders: the realistic headers are copied last.
MergeHeaders_RealisticLast(userHeaders, realisticHeaders) ==
    [k \in DOMAIN realisticHeaders \cup DOMAIN userHeaders |->
        IF k \in DOMAIN realisticHeaders THEN realisticHeaders[k]
        ELSE userHeaders[k]]

\* func MergeHeaders(userHeaders, realisticHeaders http.Header) http.Header:
\* the realistic headers are copied, then the user headers are stored over
\* them.
MergeHeaders(userHeaders, realisticHeaders) ==
    LET result == realisticHeaders
    IN [k \in DOMAIN result \cup DOMAIN userHeaders |->
          IF k \in DOMAIN userHeaders THEN userHeaders[k] ELSE result[k]]

HdrInit ==
    /\ hdrUser \in HeaderMaps(UserKeys, UserVals)
    /\ hdrReal \in HeaderMaps(OtherKeys, OtherVals)
    /\ hdrGenerated = FALSE
    /\ hdrMerged = NoHeaders
    /\ hdrDone = FALSE

HdrIdle ==
    /\ hdrUser = NoHeaders
    /\ hdrReal = NoHeaders
    /\ hdrGenerated = FALSE
    /\ hdrMerged = NoHeaders
    /\ hdrDone = FALSE

\* realisticHeaders := GenerateRealisticHeaders()
HdrGenerate ==
    /\ ~hdrGenerated
    /\ ~hdrDone
    /\ \E u \in 0..(Len(userAgents) - 1), l \in 0..(Len(languages) - 1),
          o \in 0..(Len(origins) - 1) :
         hdrReal' = GenerateRealisticHeaders(u, l, o)
    /\ hdrGenerated' = TRUE
    /\ UNCHANGED <<hdrUser, hdrMerged, hdrDone>>
    /\ UNCHANGED nonHdrVars

\* merged := MergeHeaders(userHeaders, realisticHeaders)
HdrMerge ==
    /\ ~hdrDone
    /\ hdrMerged' = MergeHeaders(hdrUser, hdrReal)
    /\ hdrDone' = TRUE
    /\ UNCHANGED <<hdrUser, hdrReal, hdrGenerated>>
    /\ UNCHANGED nonHdrVars

HeadersNext ==
    \/ HdrGenerate
    \/ HdrMerge

(***************************************************************************)
(* wsConn (share/cnet): a websocket connection used as a net.Conn.         *)
(* A byte of a frame is named by the frame's index and its offset, so a    *)
(* run of bytes is a segment <<frame, from, to>>.                          *)
(***************************************************************************)

\* NewWebSocketConn: readBufSize: 32 * 1024, writeBufSize: 64 * 1024
readBufSize == 32768
writeBufSize == 65536

\* Bounds of the model: frames that arrive, Read calls, Write calls.
MaxFrames == 3
MaxReadCalls == 4
MaxWriteCalls == 2

\* Sizes of the inbound frames: empty, small, up to the read limit, just
\* above it, and the largest frame a peer's Write emits.
FrameSizes == {0, 2, readBufSize, readBufSize + 1, writeBufSize}

\* len(dst) of the Read calls.
DstSizes == {0, 1, readBufSize}

\* len(b) of the Write calls.
PayloadLens == {0, 1, writeBufSize, writeBufSize + 1, 2 * writeBufSize,
                2 * writeBufSize + 1}

\* c.buff == nil
NoBuff == <<0, 0, 0>>

WsInit ==
    /\ inFrames = <<>>
    /\ taken = 0
    /\ readFailed = FALSE
    /\ peerClosed = FALSE
    /\ buff = NoBuff
    /\ rdOut = <<>>
    /\ rdCalls = 0
    /\ rdDst = 0
    /\ rdN = 0
    /\ rdErr = "none"
    /\ rdHadBuff = FALSE
    /\ rdTook = FALSE
    /\ wrPc = "idle"
    /\ wrLen = 0
    /\ wrI = 0
    /\ wire = <<>>
    /\ wrMsgs = 0
    /\ wrN = 0
    /\ wrErr = "none"
    /\ wrCalls = 0

WsIdle == WsInit

\* The peer sends one more frame of sz bytes.
FrameArrive(sz) ==
    /\ ~peerClosed
    /\ Len(inFrames) < MaxFrames
    /\ inFrames' = Append(inFrames, sz)
    /\ UNCHANGED <<taken, readFailed, peerClosed, buff, rdOut, rdCalls, rdDst,
                   rdN, rdErr, rdHadBuff, rdTook>>
    /\ UNCHANGED nonWsReadVars

\* The peer closes the connection.
PeerClose ==
    /\ ~peerClosed
    /\ peerClosed' = TRUE
    /\ UNCHANGED <<inFrames, taken, readFailed, buff, rdOut, rdCalls, rdDst,
                   rdN, rdErr, rdHadBuff, rdTook>>
    /\ UNCHANGED nonWsReadVars

\* c.Conn.SetReadLimit(int64(c.readBufSize)); c.Conn.ReadMessage():
\* "msg" the next frame is returned, "limit" the next frame is larger than
\* the read limit and ReadMessage fails with it, "err" the connection has
\* failed or is closed, "block" no frame yet.
ReadMessageResult ==
    IF readFailed THEN "err"
    ELSE IF taken < Len(inFrames)
      THEN IF inFrames[taken + 1] > readBufSize THEN "limit" ELSE "msg"
      ELSE IF peerClosed THEN "err" ELSE "block"

\* copy src->dest: n, the bytes copied into dst, and the new c.buff.
CopyOut(src, ldst) ==
    IF SegLen(src) > ldst
      THEN LET r == <<src[1], src[2] + ldst, src[3]>>
               lr == SegLen(r)
           IN [n |-> ldst,
               out |-> <<src[1], src[2], src[2] + ldst>>,
               buff |-> IF lr <= readBufSize
                          THEN r
                          ELSE <<r[1], r[2], r[2] + readBufSize>>]
      ELSE [n |-> SegLen(src), out |-> src, buff |-> NoBuff]

\* Mutant of WsRead: no read limit is set and the remainder is kept whole.
WsRead_Unbounded(ldst) ==
    /\ rdCalls < MaxReadCalls
    /\ LET hasBuff == SegLen(buff) > 0
           rm == IF ReadMessageResult = "limit" THEN "msg"
                 ELSE ReadMessageResult
       IN /\ hasBuff \/ rm # "block"
          /\ rdCalls' = rdCalls + 1
          /\ rdDst' = ldst
          /\ rdHadBuff' = hasBuff
          /\ IF ~hasBuff /\ rm # "msg"
               THEN /\ rdN' = 0
                    /\ rdErr' = "err"
                    /\ readFailed' = TRUE
                    /\ rdTook' = FALSE
                    /\ UNCHANGED <<buff, rdOut, taken>>
               ELSE LET src == IF hasBuff THEN buff
                               ELSE <<taken + 1, 0, inFrames[taken + 1]>>
                        n == Min2(SegLen(src), ldst)
                    IN /\ rdN' = n
                       /\ rdErr' = "nil"
                       /\ buff' = IF SegLen(src) > ldst
                                    THEN <<src[1], src[2] + ldst, src[3]>>
                                    ELSE NoBuff
                       /\ rdOut' = AppendBytes(rdOut,
                                       <<src[1], src[2], src[2] + n>>)
                       /\ taken' = IF hasBuff THEN taken ELSE taken + 1
                       /\ rdTook' = ~hasBuff
                       /\ UNCHANGED readFailed
    /\ UNCHANGED <<inFrames, peerClosed>>
    /\ UNCHANGED nonWsReadVars

\* func (c *wsConn) Read(dst []byte) (int, error), with len(dst) = ldst.
WsRead(ldst) ==
    /\ rdCalls < MaxReadCalls
    /\ LET hasBuff == SegLen(buff) > 0
           rm == ReadMessageResult
       IN /\ hasBuff \/ rm # "block"
          /\ rdCalls' = rdCalls + 1
          /\ rdDst' = ldst
          /\ rdHadBuff' = hasBuff
          /\ IF ~hasBuff /\ rm # "msg"
               THEN /\ rdN' = 0
                    /\ rdErr' = "err"
                    /\ readFailed' = TRUE
                    /\ taken' = IF rm = "limit" THEN taken + 1 ELSE taken
                    /\ rdTook' = (rm = "limit")
                    /\ UNCHANGED <<buff, rdOut>>
               ELSE LET src == IF hasBuff THEN buff
                               ELSE <<taken + 1, 0, inFrames[taken + 1]>>
                        c == CopyOut(src, ldst)
                    IN /\ rdN' = c.n
                       /\ rdErr' = "nil"
                       /\ buff' = c.buff
                       /\ rdOut' = AppendBytes(rdOut, c.out)
                       /\ taken' = IF hasBuff THEN taken ELSE taken + 1
                       /\ rdTook' = ~hasBuff
                       /\ UNCHANGED readFailed
    /\ UNCHANGED <<inFrames, peerClosed>>
    /\ UNCHANGED nonWsReadVars

WsReadNext ==
    \/ \E sz \in FrameSizes : FrameArrive(sz)
    \/ PeerClose
    \/ \E ldst \in DstSizes : WsRead(ldst)

\* Mutant of ChunkEnd: end is not cut back to len(b).
ChunkEnd_NoClamp(i, n) == i + writeBufSize

\* end := i + maxChunkSize; if end > len(b) { end = len(b) }
ChunkEnd(i, n) == IF i + writeBufSize > n THEN n ELSE i + writeBufSize

\* Mutant of ChunkFailCount: the failed chunk is counted as sent.
ChunkFailCount_End(i, end) == end

\* return i, err
ChunkFailCount(i, end) == i

\* func (c *wsConn) Write(b []byte) (int, error), with len(b) = n, up to the
\* test len(b) > maxChunkSize.  The random delay before it changes no state.
WsWriteCall(n) ==
    /\ wrPc \in {"idle", "returned"}
    /\ wrCalls < MaxWriteCalls
    /\ wrCalls' = wrCalls + 1
    /\ wrLen' = n
    /\ wrI' = 0
    /\ wrMsgs' = 0
    /\ wrN' = 0
    /\ wrErr' = "none"
    /\ wrPc' = IF n > writeBufSize THEN "loop" ELSE "single"
    /\ UNCHANGED wire
    /\ UNCHANGED nonWsWriteVars

\* One iteration of the chunk loop: WriteMessage of b[i:end] succeeds or
\* fails.
WsWriteChunk ==
    /\ wrPc = "loop"
    /\ wrI < wrLen
    /\ wrMsgs' = wrMsgs + 1
    /\ LET end == ChunkEnd(wrI, wrLen)
       IN \E ok \in BOOLEAN :
            IF ok
              THEN /\ wire' = Append(wire, <<wrCalls, wrI, end>>)
                   /\ wrI' = wrI + writeBufSize
                   /\ UNCHANGED <<wrPc, wrN, wrErr>>
              ELSE /\ wrN' = ChunkFailCount(wrI, end)
                   /\ wrErr' = "err"
                   /\ wrPc' = "returned"
                   /\ UNCHANGED <<wire, wrI>>
    /\ UNCHANGED <<wrLen, wrCalls>>
    /\ UNCHANGED nonWsWriteVars

\* The chunk loop ends: return len(b), nil
WsWriteLoopDone ==
    /\ wrPc = "loop"
    /\ wrI >= wrLen
    /\ wrN' = wrLen
    /\ wrErr' = "nil"
    /\ wrPc' = "returned"
    /\ UNCHANGED <<wrLen, wrI, wire, wrMsgs, wrCalls>>
    /\ UNCHANGED nonWsWriteVars

\* len(b) <= maxChunkSize: one WriteMessage of b.
WsWriteSingle ==
    /\ wrPc = "single"
    /\ wrMsgs' = wrMsgs + 1
    /\ \E ok \in BOOLEAN :
         IF ok
           THEN /\ wire' = Append(wire, <<wrCalls, 0, wrLen>>)
                /\ wrN' = wrLen
                /\ wrErr' = "nil"
           ELSE /\ wrN' = 0
                /\ wrErr' = "err"
                /\ UNCHANGED wire
    /\ wrPc' = "returned"
    /\ UNCHANGED <<wrLen, wrI, wrCalls>>
    /\ UNCHANGED nonWsWriteVars

WsWriteNext ==
    \/ \E n \in PayloadLens : WsWriteCall(n)
    \/ WsWriteChunk
    \/ WsWriteLoopDone
    \/ WsWriteSingle

(***************************************************************************)
(* Client (client/client_connect.go): connectionLoop and connectionOnce.   *)
(* Durations are in milliseconds.                                          *)
(***************************************************************************)

\* Bound of the model: connectionOnce calls of one connectionLoop.
MaxAttempts == 5

\* c.config.MaxRetryCount: unlimited, no retry, one retry, two retries.
RetryCounts == {-1, 0, 1, 2}

\* c.config.MaxRetryInterval: unset, 400ms, or 25 minutes.
RetryIntervals == {0, 400, 1500000}

\* Bound of the model: connectionOnce calls of one connectionLoop when each
\* call is taken as one step.
MaxLongAttempts == 13

\* 10 * time.Minute, 5 * time.Second
tenMinutes == 600000
fiveSeconds == 5000

\* connected = time.Since(t0) > 5*time.Second
stabilityThreshold == 5000

\* Time the "config" request takes when it succeeds: none, one second.
ConfigLatencies == {0, 1000}

\* Time a session stays bound: dropped at once, exactly the stability
\* threshold, longer.
SessionTimes == {0, stabilityThreshold, stabilityThreshold + 1000}

\* backoff.Backoff{Max: ...}: Min defaults to 100ms, Max to 10s, Factor to 2.
backoffMin == 100
backoffDefaultMax == 10000

ClientInit ==
    /\ maxRetryCount \in RetryCounts
    /\ maxRetryInterval \in RetryIntervals
    /\ loopPc = "call"
    /\ clientCtx = FALSE
    /\ attempt = 0
    /\ consecutiveFailures = 0
    /\ adaptiveBackoff = 0
    /\ finalBackoff = 0
    /\ lastSuccess = "zero"
    /\ connected = FALSE
    /\ connErr = "none"
    /\ t0Elapsed = 0
    /\ sessionTime = 0
    /\ attempts = 0
    /\ dials = 0
    /\ binds = 0
    /\ allFailed = TRUE
    /\ gaveUp = FALSE
    /\ clientClosed = 0
    /\ attemptLogs = 0
    /\ logged = {}
    /\ lateResult = FALSE
    /\ loopRet = "none"

ClientIdle ==
    /\ maxRetryCount = 0
    /\ maxRetryInterval = 0
    /\ loopPc = "call"
    /\ clientCtx = FALSE
    /\ attempt = 0
    /\ consecutiveFailures = 0
    /\ adaptiveBackoff = 0
    /\ finalBackoff = 0
    /\ lastSuccess = "zero"
    /\ connected = FALSE
    /\ connErr = "none"
    /\ t0Elapsed = 0
    /\ sessionTime = 0
    /\ attempts = 0
    /\ dials = 0
    /\ binds = 0
    /\ allFailed = TRUE
    /\ gaveUp = FALSE
    /\ clientClosed = 0
    /\ attemptLogs = 0
    /\ logged = {}
    /\ lateResult = FALSE
    /\ loopRet = "none"

onceVars == <<maxRetryCount, maxRetryInterval, clientCtx, attempt,
              consecutiveFailures, adaptiveBackoff, finalBackoff, lastSuccess,
              allFailed, gaveUp, clientClosed, attemptLogs, loopRet>>

\* The ctx given to connectionLoop is canceled.
ClientCancel ==
    /\ ~clientCtx
    /\ loopPc # "returned"
    /\ clientCtx' = TRUE
    /\ UNCHANGED <<maxRetryCount, maxRetryInterval, loopPc, attempt,
                   consecutiveFailures, adaptiveBackoff, finalBackoff,
                   lastSuccess, connected, connErr, lateResult, attempts, dials, binds,
                   allFailed, gaveUp, clientClosed, attemptLogs, logged,
                   loopRet, t0Elapsed, sessionTime>>
    /\ UNCHANGED nonClientVars

\* More than five minutes pass since lastSuccess, during a sleep or an
\* attempt.
TimePasses ==
    /\ lastSuccess = "recent"
    /\ loopPc \in {"dial", "handshake", "config", "bound", "sleep", "timer"}
    /\ lastSuccess' = "old"
    /\ UNCHANGED <<maxRetryCount, maxRetryInterval, loopPc, clientCtx, attempt,
                   consecutiveFailures, adaptiveBackoff, finalBackoff,
                   connected, connErr, lateResult, attempts, dials, binds, allFailed,
                   gaveUp, clientClosed, attemptLogs, logged, loopRet,
                   t0Elapsed, sessionTime>>
    /\ UNCHANGED nonClientVars

\* connectionOnce returns (conn, err) to connectionLoop.
OnceReturn(conn, err) ==
    /\ connected' = conn
    /\ connErr' = err
    /\ lateResult' = clientCtx
    /\ loopPc' = "result"

\* Mutant of AlreadyClosed: connectionOnce does not look at its ctx.
AlreadyClosed_Never == FALSE

\* select { case <-ctx.Done(): return false, errors.New("Cancelled") ...
AlreadyClosed == clientCtx

\* A new iteration of the for loop: connectionLoop calls connectionOnce: the ctx test, and c.setProxy when a
\* proxy is configured.
OnceEnter ==
    /\ loopPc = "call"
    /\ attempts < MaxAttempts \/ clientCtx
    /\ attempts' = attempts + 1
    /\ IF AlreadyClosed
         THEN OnceReturn(FALSE, "Cancelled")
         ELSE \/ OnceReturn(FALSE, "proxy")
              \/ /\ loopPc' = "dial"
                 /\ UNCHANGED <<connected, connErr, lateResult>>
    /\ t0Elapsed' = 0
    /\ sessionTime' = 0
    /\ UNCHANGED <<dials, binds>>
    /\ logged' = {}
    /\ UNCHANGED onceVars
    /\ UNCHANGED nonClientVars

\* d.DialContext(connectCtx, c.server, headers).  connectCtx is derived from
\* ctx: called with ctx already canceled, the dialer returns the error
\* without connecting; dials counts the calls that can reach the server.
OnceDial ==
    /\ loopPc = "dial"
    /\ IF clientCtx
         THEN /\ OnceReturn(FALSE, "dial")
              /\ UNCHANGED dials
         ELSE /\ dials' = dials + 1
              /\ \/ OnceReturn(FALSE, "dial")
                 \/ /\ loopPc' = "handshake"
                    /\ UNCHANGED <<connected, connErr, lateResult>>
    /\ UNCHANGED <<attempts, binds, t0Elapsed, sessionTime>>
    /\ UNCHANGED <<onceVars, logged>>
    /\ UNCHANGED nonClientVars

\* ssh.NewClientConn(conn, "", c.sshConfig)
OnceHandshake ==
    /\ loopPc = "handshake"
    /\ \/ OnceReturn(FALSE, "handshake")
       \/ /\ loopPc' = "config"
          /\ UNCHANGED <<connected, connErr, lateResult>>
    /\ UNCHANGED <<attempts, dials, binds, t0Elapsed, sessionTime>>
    /\ UNCHANGED <<onceVars, logged>>
    /\ UNCHANGED nonClientVars

\* Mutant of OnceConfig: the session is handed to BindSSH before the reply
\* to the config request is looked at.
OnceConfig_BindFirst ==
    /\ loopPc = "config"
    /\ binds' = binds + 1
    /\ \/ OnceReturn(FALSE, "config") /\ UNCHANGED t0Elapsed
       \/ OnceReturn(FALSE, "rejected") /\ UNCHANGED t0Elapsed
       \/ /\ loopPc' = "bound"
          /\ \E lat \in ConfigLatencies : t0Elapsed' = lat
          /\ UNCHANGED <<connected, connErr, lateResult>>
    /\ UNCHANGED <<attempts, dials, sessionTime>>
    /\ UNCHANGED <<onceVars, logged>>
    /\ UNCHANGED nonClientVars

\* t0 := time.Now(); sshConn.SendRequest("config", true, ...): an error, a
\* non-empty reply, or success after lat ms and the call of
\* c.tunnel.BindSSH.
OnceConfig ==
    /\ loopPc = "config"
    /\ \/ OnceReturn(FALSE, "config") /\ UNCHANGED <<binds, t0Elapsed>>
       \/ OnceReturn(FALSE, "rejected") /\ UNCHANGED <<binds, t0Elapsed>>
       \/ /\ loopPc' = "bound"
          /\ binds' = binds + 1
          /\ \E lat \in ConfigLatencies : t0Elapsed' = lat
          /\ UNCHANGED <<connected, connErr, lateResult>>
    /\ UNCHANGED <<attempts, dials, sessionTime>>
    /\ UNCHANGED <<onceVars, logged>>
    /\ UNCHANGED nonClientVars

\* connected = time.Since(t0) > 5*time.Second
Connected(sinceT0) == sinceT0 > stabilityThreshold

\* c.tunnel.BindSSH returns err after the session was bound for dur ms.
OnceBindReturn ==
    /\ loopPc = "bound"
    /\ \E dur \in SessionTimes, err \in {"nil", "closed", "err"} :
         /\ sessionTime' = dur
         /\ OnceReturn(Connected(t0Elapsed + dur), err)
    /\ UNCHANGED <<attempts, dials, binds, t0Elapsed>>
    /\ UNCHANGED <<onceVars, logged>>
    /\ UNCHANGED nonClientVars

\* connectionOnce from its call to its return as one step, the ctx live: the
\* dial fails, or the session is bound and ends within or after the
\* stability threshold.
OnceWhole ==
    /\ loopPc = "call"
    /\ ~clientCtx
    /\ attempts < MaxLongAttempts
    /\ attempts' = attempts + 1
    /\ dials' = dials + 1
    /\ \/ /\ OnceReturn(FALSE, "dial")
          /\ t0Elapsed' = 0
          /\ sessionTime' = 0
          /\ UNCHANGED binds
       \/ /\ \E lat \in ConfigLatencies, dur \in SessionTimes :
               /\ t0Elapsed' = lat
               /\ sessionTime' = dur
               /\ OnceReturn(Connected(lat + dur), "nil")
          /\ binds' = binds + 1
    /\ logged' = {}
    /\ UNCHANGED onceVars
    /\ UNCHANGED nonClientVars

\* Mutant of GiveUp: one more retry than configured.
GiveUp_Late(att, maxAttempt) == maxAttempt >= 0 /\ att > maxAttempt

\* if maxAttempt >= 0 && attempt >= maxAttempt
GiveUp(att, maxAttempt) == maxAttempt >= 0 /\ att >= maxAttempt

\* b.ForAttempt(a) of jpillora/backoff without jitter.
BackoffForAttempt(a) ==
    LET max == IF maxRetryInterval <= 0 THEN backoffDefaultMax
               ELSE maxRetryInterval
    IN IF backoffMin >= max THEN max ELSE Min2(backoffMin * (2 ^ a), max)

\* Mutant of AdaptiveBackoff: the adaptive term is not capped.
AdaptiveBackoff_NoCap(base, failures, prev, since) ==
    LET a1 == IF failures > 3 THEN base * (failures \div 3) ELSE prev
    IN IF since = "old" THEN fiveSeconds ELSE a1

\* The adaptive term after the two adjustments of one iteration.
AdaptiveBackoff(base, failures, prev, since) ==
    LET a1 == IF failures > 3
                THEN Min2(base * (failures \div 3), tenMinutes)
                ELSE prev
    IN IF since = "old" THEN fiveSeconds ELSE a1

\* The messages of one iteration: c.Infof("Connection error: ...") when the
\* error is shown, then c.Infof("Give up") or c.Infof("Retrying in ...").
LoopMessages(shown, giveUp) ==
    (IF shown THEN {"Connection error"} ELSE {})
        \cup (IF giveUp THEN {"Give up"} ELSE {"Retrying in"})

\* One iteration of connectionLoop after connectionOnce returned: the
\* counters, the messages, the give-up test and the backoff computation.
LoopResult ==
    /\ loopPc = "result"
    /\ LET att == IF connected THEN 0 ELSE attempt
           failures == IF connected THEN 0 ELSE consecutiveFailures + 1
           prev == IF connected THEN 0 ELSE adaptiveBackoff
           since == IF connected THEN "recent" ELSE lastSuccess
           shown == connErr \notin {"nil", "closed"}
       IN /\ consecutiveFailures' = failures
          /\ lastSuccess' = since
          /\ allFailed' = (allFailed /\ ~connected)
          /\ attemptLogs' = IF shown /\ att > 0 THEN attemptLogs + 1
                            ELSE attemptLogs
          /\ logged' = LoopMessages(shown, GiveUp(att, maxRetryCount))
          /\ IF GiveUp(att, maxRetryCount)
               THEN /\ gaveUp' = TRUE
                    /\ clientClosed' = clientClosed + 1
                    /\ loopRet' = "nil"
                    /\ loopPc' = "returned"
                    /\ attempt' = att
                    /\ adaptiveBackoff' = prev
                    /\ UNCHANGED finalBackoff
               ELSE LET base == BackoffForAttempt(att)
                        adaptive == AdaptiveBackoff(base, failures, prev, since)
                    IN /\ attempt' = att + 1
                       /\ adaptiveBackoff' = adaptive
                       /\ finalBackoff' = Min2(base + adaptive, tenMinutes)
                       /\ loopPc' = "sleep"
                       /\ UNCHANGED <<gaveUp, clientClosed, loopRet>>
    /\ UNCHANGED <<maxRetryCount, maxRetryInterval, clientCtx, connected,
                   connErr, lateResult, attempts, dials, binds, t0Elapsed, sessionTime>>
    /\ UNCHANGED nonClientVars

\* The timer of cos.AfterSignal(finalBackoff) fires while connectionLoop
\* waits in the select.  finalBackoff is positive and ctx.Done() is ready as
\* soon as ctx is canceled, so a timer that has not fired by the cancel does
\* not fire before the select takes ctx.Done().
TimerFires ==
    /\ loopPc = "sleep"
    /\ ~clientCtx
    /\ loopPc' = "timer"
    /\ UNCHANGED <<connected, connErr, lateResult, attempts, dials, binds, t0Elapsed,
                   sessionTime>>
    /\ UNCHANGED <<onceVars, logged>>
    /\ UNCHANGED nonClientVars

\* case <-cos.AfterSignal(finalBackoff): continue
SleepElapsed ==
    /\ loopPc = "timer"
    /\ loopPc' = "call"
    /\ UNCHANGED <<connected, connErr, lateResult, attempts, dials, binds, t0Elapsed,
                   sessionTime>>
    /\ UNCHANGED <<onceVars, logged>>
    /\ UNCHANGED nonClientVars

\* case <-ctx.Done(): return nil
SleepCancelled ==
    /\ loopPc \in {"sleep", "timer"}
    /\ clientCtx
    /\ loopPc' = "returned"
    /\ loopRet' = "nil"
    /\ UNCHANGED <<maxRetryCount, maxRetryInterval, clientCtx, attempt,
                   consecutiveFailures, adaptiveBackoff, finalBackoff,
                   lastSuccess, connected, connErr, lateResult, attempts, dials, binds,
                   allFailed, gaveUp, clientClosed, attemptLogs, t0Elapsed,
                   sessionTime>>
    /\ logged' = logged \cup {"Cancelled"}
    /\ UNCHANGED nonClientVars

ClientNext ==
    \/ ClientCancel
    \/ TimePasses
    \/ OnceEnter
    \/ OnceDial
    \/ OnceHandshake
    \/ OnceConfig
    \/ OnceBindReturn
    \/ LoopResult
    \/ TimerFires
    \/ SleepElapsed
    \/ SleepCancelled

\* connectionLoop over many attempts, each connectionOnce taken as one step.
ClientLongNext ==
    \/ TimePasses
    \/ OnceWhole
    \/ LoopResult
    \/ TimerFires
    \/ SleepElapsed

(***************************************************************************)
(* Meter (share/cnet/meter.go): a metered reader and a metered writer      *)
(* over one Meter, and the goprint goroutines they start.                  *)
(***************************************************************************)

\* Bound of the model: metered Read and Write calls (each may start a
\* goprint goroutine).
MaxMeterOps == 3

\* The goroutine in meterReader.Read and the one in meterWriter.Write.
MeterCallers == {"reader", "writer"}

Printers == 1..MaxMeterOps

\* n of the inner Read or Write.
IoSizes == {0, 1}

MtInit ==
    /\ mtPrinting = FALSE
    /\ mtGo = [p \in Printers |-> "none"]
    /\ mtSnap = [p \in Printers |-> <<0, 0>>]
    /\ mtPc = [c \in MeterCallers |-> "idle"]
    /\ mtOps = 0
    /\ mtSent = 0
    /\ mtRecv = 0
    /\ mtLsent = 0
    /\ mtLrecv = 0

MtIdle == MtInit

\* Mutant of PrintCAS: print starts a goroutine whatever m.printing holds.
PrintCAS_NoLatch(printing) == TRUE

\* m.printing.CompareAndSwap(false, true): TRUE when the swap was made.
PrintCAS(printing) == printing = FALSE

\* n, err = m.inner.Read(p); m.recv.Add(int64(n)), or
\* n, err = m.inner.Write(p); m.sent.Add(int64(n)).
MeterIO(c, n) ==
    /\ mtPc[c] = "idle"
    /\ mtOps < MaxMeterOps
    /\ mtOps' = mtOps + 1
    /\ IF c = "reader"
         THEN mtRecv' = mtRecv + n /\ UNCHANGED mtSent
         ELSE mtSent' = mtSent + n /\ UNCHANGED mtRecv
    /\ mtPc' = [mtPc EXCEPT ![c] = "print"]
    /\ UNCHANGED <<mtPrinting, mtGo, mtSnap, mtLsent, mtLrecv>>
    /\ UNCHANGED nonMeterVars

\* m.Meter.print(): if m.printing.CompareAndSwap(false, true) { ... }
MeterPrint(c) ==
    /\ mtPc[c] = "print"
    /\ IF PrintCAS(mtPrinting)
         THEN /\ mtPrinting' = TRUE
              /\ mtPc' = [mtPc EXCEPT ![c] = "go"]
         ELSE /\ mtPc' = [mtPc EXCEPT ![c] = "idle"]
              /\ UNCHANGED mtPrinting
    /\ UNCHANGED <<mtGo, mtSnap, mtOps, mtSent, mtRecv, mtLsent, mtLrecv>>
    /\ UNCHANGED nonMeterVars

\* go m.goprint(): the goroutine starts with time.Sleep(time.Second), and
\* print returns.
MeterGo(c) ==
    /\ mtPc[c] = "go"
    /\ LET p == Cardinality({q \in Printers : mtGo[q] # "none"}) + 1
       IN /\ p \in Printers
          /\ mtGo' = [mtGo EXCEPT ![p] = "sleep"]
    /\ mtPc' = [mtPc EXCEPT ![c] = "idle"]
    /\ UNCHANGED <<mtPrinting, mtSnap, mtOps, mtSent, mtRecv, mtLsent, mtLrecv>>
    /\ UNCHANGED nonMeterVars

\* goprint after the sleep: s := m.sent.Load(); r := m.recv.Load()
GoprintLoad(p) ==
    /\ mtGo[p] = "sleep"
    /\ mtSnap' = [mtSnap EXCEPT ![p] = <<mtSent, mtRecv>>]
    /\ mtGo' = [mtGo EXCEPT ![p] = "loaded"]
    /\ UNCHANGED <<mtPrinting, mtPc, mtOps, mtSent, mtRecv, mtLsent, mtLrecv>>
    /\ UNCHANGED nonMeterVars

\* goprint to its end: m.lsent.Store(s); m.lrecv.Store(r);
\* m.last.Store(curr); m.printing.Store(false)
GoprintStore(p) ==
    /\ mtGo[p] = "loaded"
    /\ mtLsent' = mtSnap[p][1]
    /\ mtLrecv' = mtSnap[p][2]
    /\ mtPrinting' = FALSE
    /\ mtGo' = [mtGo EXCEPT ![p] = "done"]
    /\ UNCHANGED <<mtSnap, mtPc, mtOps, mtSent, mtRecv>>
    /\ UNCHANGED nonMeterVars

MeterNext ==
    \/ \E c \in MeterCallers :
         \/ \E n \in IoSizes : MeterIO(c, n)
         \/ MeterPrint(c)
         \/ MeterGo(c)
    \/ \E p \in Printers : GoprintLoad(p) \/ GoprintStore(p)

(***************************************************************************)
(* connectionLoop and the Tunnel of the client (client/client_connect.go,  *)
(* tunnel/tunnel.go): the BindSSH calls connectionOnce makes, one after    *)
(* the other, on the one Tunnel.                                           *)
(***************************************************************************)

\* Bound of the model: connectionOnce calls of one connectionLoop.
MaxLoopCalls == 4

CbInit ==
    /\ cbPc = "call"
    /\ cbCtx = FALSE
    /\ cbSession = 0
    /\ cbCalls = 0
    /\ cbActive = NoConn
    /\ cbPanicked = FALSE
    /\ cbGiveUp = FALSE

CbIdle == CbInit

\* Mutant of ClearActive: BindSSH returns without clearing t.activeConn.
ClearActive_Keep(active) == active

\* BindSSH after c.Wait(): t.activeConn = nil
ClearActive(active) == NoConn

\* The ctx of the client is canceled.
CbCancel ==
    /\ ~cbCtx
    /\ cbPc # "returned"
    /\ cbCtx' = TRUE
    /\ UNCHANGED <<cbPc, cbSession, cbCalls, cbActive, cbPanicked, cbGiveUp>>
    /\ UNCHANGED nonCbVars

\* for { connected, err := c.connectionOnce(ctx): the call, and the ctx test
\* at its top.
CbOnceEnter ==
    /\ cbPc = "call"
    /\ cbCalls < MaxLoopCalls
    /\ cbCalls' = cbCalls + 1
    /\ cbPc' = IF cbCtx THEN "result" ELSE "connect"
    /\ UNCHANGED <<cbCtx, cbSession, cbActive, cbPanicked, cbGiveUp>>
    /\ UNCHANGED nonCbVars

\* setProxy, the dial, the handshake or the config request fails:
\* connectionOnce returns without calling BindSSH.
CbOnceFail ==
    /\ cbPc = "connect"
    /\ cbPc' = "result"
    /\ UNCHANGED <<cbCtx, cbSession, cbCalls, cbActive, cbPanicked, cbGiveUp>>
    /\ UNCHANGED nonCbVars

\* The config request is accepted: c.tunnel.BindSSH(ctx, sshConn, reqs,
\* chans) with a new session, up to the store of t.activeConn or the panic.
CbBindStore ==
    /\ cbPc = "connect"
    /\ cbSession' = cbSession + 1
    /\ IF cbActive # NoConn
         THEN /\ cbPanicked' = TRUE
              /\ cbPc' = "panicked"
              /\ UNCHANGED cbActive
         ELSE /\ cbActive' = cbSession + 1
              /\ cbPc' = "wait"
              /\ UNCHANGED cbPanicked
    /\ UNCHANGED <<cbCtx, cbCalls, cbGiveUp>>
    /\ UNCHANGED nonCbVars

\* err := c.Wait() returns: the session ended (the peer, the keepalive loop,
\* or the goroutine that closes it on ctx.Done()).
CbWaitReturn ==
    /\ cbPc = "wait"
    /\ cbPc' = "clear"
    /\ UNCHANGED <<cbCtx, cbSession, cbCalls, cbActive, cbPanicked, cbGiveUp>>
    /\ UNCHANGED nonCbVars

\* t.activeConn = nil; return err, and connectionOnce returns.
CbBindReturn ==
    /\ cbPc = "clear"
    /\ cbActive' = ClearActive(cbActive)
    /\ cbPc' = "result"
    /\ UNCHANGED <<cbCtx, cbSession, cbCalls, cbPanicked, cbGiveUp>>
    /\ UNCHANGED nonCbVars

\* connectionLoop after connectionOnce returned: give up (break, c.Close(),
\* return nil) or go on to the sleep.
CbLoopResult ==
    /\ cbPc = "result"
    /\ \E giveUp \in BOOLEAN :
         /\ cbGiveUp' = giveUp
         /\ cbPc' = IF giveUp THEN "returned" ELSE "sleep"
    /\ UNCHANGED <<cbCtx, cbSession, cbCalls, cbActive, cbPanicked>>
    /\ UNCHANGED nonCbVars

\* select { case <-cos.AfterSignal(finalBackoff): continue
\*          case <-ctx.Done(): return nil }
CbSleepEnd ==
    /\ cbPc = "sleep"
    /\ \/ cbPc' = "call"
       \/ cbCtx /\ cbPc' = "returned"
    /\ UNCHANGED <<cbCtx, cbSession, cbCalls, cbActive, cbPanicked, cbGiveUp>>
    /\ UNCHANGED nonCbVars

ClientBindNext ==
    \/ CbCancel
    \/ CbOnceEnter
    \/ CbOnceFail
    \/ CbBindStore
    \/ CbWaitReturn
    \/ CbBindReturn
    \/ CbLoopResult
    \/ CbSleepEnd

(***************************************************************************)
(* The keepAliveLoop goroutines of the sessions bound one after the other  *)
(* to one Tunnel (tunnel/tunnel.go).  A loop is named by the session whose *)
(* BindSSH started it.                                                     *)
(***************************************************************************)

\* Bounds of the model: sessions bound in sequence, and pings one loop gets
\* answered well.
MaxKsSessions == 3
MaxKsPings == 2

KsSessions == 1..MaxKsSessions

KsInit ==
    /\ ksKeepAlive \in BOOLEAN
    /\ ksCount = 0
    /\ ksActive = NoConn
    /\ ksClosed = [s \in KsSessions |-> FALSE]
    /\ ksLoopPc = [s \in KsSessions |-> "none"]
    /\ ksStarted = [s \in KsSessions |-> 0]
    /\ ksPings = [s \in KsSessions |-> 0]
    /\ ksPinged = [s \in KsSessions |-> {}]
    /\ ksClosedBy = [s \in KsSessions |-> {}]
    /\ ksLate = [s \in KsSessions |-> 0]

KsIdle ==
    /\ ksKeepAlive = FALSE
    /\ ksCount = 0
    /\ ksActive = NoConn
    /\ ksClosed = [s \in KsSessions |-> FALSE]
    /\ ksLoopPc = [s \in KsSessions |-> "none"]
    /\ ksStarted = [s \in KsSessions |-> 0]
    /\ ksPings = [s \in KsSessions |-> 0]
    /\ ksPinged = [s \in KsSessions |-> {}]
    /\ ksClosedBy = [s \in KsSessions |-> {}]
    /\ ksLate = [s \in KsSessions |-> 0]

\* Mutant of LoopConn: the loop works on the tunnel's current session.
LoopConn_Active(arg, active) == active

\* The connection keepAliveLoop pings and closes: its parameter sshConn, the
\* c of the BindSSH that started it.
LoopConn(arg, active) == arg

\* BindSSH of the next session, up to c.Wait(): t.activeConn = c, and
\* go t.keepAliveLoop(c) when KeepAlive > 0.
KsBind ==
    /\ ksCount < MaxKsSessions
    /\ ksActive = NoConn
    /\ LET s == ksCount + 1
       IN /\ ksCount' = s
          /\ ksActive' = s
          /\ IF ksKeepAlive
               THEN /\ ksLoopPc' = [ksLoopPc EXCEPT ![s] = "sleep"]
                    /\ ksStarted' = [ksStarted EXCEPT ![s] = ksStarted[s] + 1]
               ELSE UNCHANGED <<ksLoopPc, ksStarted>>
    /\ UNCHANGED <<ksKeepAlive, ksClosed, ksPings, ksPinged, ksClosedBy, ksLate>>
    /\ UNCHANGED nonKsVars

\* The connection of the session stored ends: the peer, the network, or the
\* goroutine that closes it when ctx is done.
KsConnEnd ==
    /\ ksActive # NoConn
    /\ ~ksClosed[ksActive]
    /\ ksClosed' = [ksClosed EXCEPT ![ksActive] = TRUE]
    /\ UNCHANGED <<ksKeepAlive, ksCount, ksActive, ksLoopPc, ksStarted,
                   ksPings, ksPinged, ksClosedBy, ksLate>>
    /\ UNCHANGED nonKsVars

\* c.Wait() returns; t.activeConn = nil; BindSSH returns.
KsBindReturn ==
    /\ ksActive # NoConn
    /\ ksClosed[ksActive]
    /\ ksActive' = NoConn
    /\ UNCHANGED <<ksKeepAlive, ksCount, ksClosed, ksLoopPc, ksStarted,
                   ksPings, ksPinged, ksClosedBy, ksLate>>
    /\ UNCHANGED nonKsVars

\* time.Sleep(actualDuration) of loop l returns.
KsLoopWake(l) ==
    /\ ksLoopPc[l] = "sleep"
    /\ ksPings[l] < MaxKsPings \/ ksClosed[l]
    /\ ksLoopPc' = [ksLoopPc EXCEPT ![l] = "ping"]
    /\ UNCHANGED <<ksKeepAlive, ksCount, ksActive, ksClosed, ksStarted,
                   ksPings, ksPinged, ksClosedBy, ksLate>>
    /\ UNCHANGED nonKsVars

\* sshConn.SendRequest("ping", true, nil) of loop l and the tests of its
\* result: an error when the connection is closed, else an error, a strange
\* body or a good reply.
KsLoopPing(l) ==
    /\ ksLoopPc[l] = "ping"
    /\ LET c == LoopConn(l, ksActive)
           dead == c = NoConn \/ ksClosed[c]
       IN /\ ksPinged' = [ksPinged EXCEPT ![l] = ksPinged[l] \cup {c}]
          /\ ksLate' = [ksLate EXCEPT ![l] =
                           IF ksClosed[l] THEN ksLate[l] + 1 ELSE ksLate[l]]
          /\ \E bad \in {TRUE, dead} :
               IF bad
                 THEN /\ ksLoopPc' = [ksLoopPc EXCEPT ![l] = "close"]
                      /\ UNCHANGED ksPings
                 ELSE /\ ksLoopPc' = [ksLoopPc EXCEPT ![l] = "sleep"]
                      /\ ksPings' = [ksPings EXCEPT ![l] = ksPings[l] + 1]
    /\ UNCHANGED <<ksKeepAlive, ksCount, ksActive, ksClosed, ksStarted,
                   ksClosedBy>>
    /\ UNCHANGED nonKsVars

\* After the loop: sshConn.Close(), and keepAliveLoop returns.
KsLoopClose(l) ==
    /\ ksLoopPc[l] = "close"
    /\ LET c == LoopConn(l, ksActive)
       IN /\ ksClosedBy' = [ksClosedBy EXCEPT ![l] = ksClosedBy[l] \cup {c}]
          /\ ksClosed' = IF c = NoConn THEN ksClosed
                         ELSE [ksClosed EXCEPT ![c] = TRUE]
    /\ ksLoopPc' = [ksLoopPc EXCEPT ![l] = "done"]
    /\ UNCHANGED <<ksKeepAlive, ksCount, ksActive, ksStarted, ksPings,
                   ksPinged, ksLate>>
    /\ UNCHANGED nonKsVars

KeepAliveSeqNext ==
    \/ KsBind
    \/ KsConnEnd
    \/ KsBindReturn
    \/ \E l \in KsSessions :
         \/ KsLoopWake(l)
         \/ KsLoopPing(l)
         \/ KsLoopClose(l)

\* The loops run: a sleep ends, a ping returns, the close is called.
\* Nothing forces a connection to end or a new session to be bound.
KeepAliveSeqFairness ==
    \A l \in KsSessions :
        /\ WF_vars(KsLoopWake(l))
        /\ WF_vars(KsLoopPing(l))
        /\ WF_vars(KsLoopClose(l))

(***************************************************************************)
(* Specifications                                                          *)
(***************************************************************************)

ProxyNext ==
    \/ ProxyCancel
    \/ RunTCPStart
    \/ RunTCPReverseReturn
    \/ CloserOnCtx
    \/ CloserOnDone
    \/ AcceptConn
    \/ AcceptError
    \/ SelectPool
    \/ WorkerTake
    \/ WorkerExit
    \/ PipeRemoteReturn

InitProxy == ProxyInit /\ TunnelIdle /\ PipeIdle /\ WsIdle /\ ClientIdle /\ KaIdle
        /\ BrIdle /\ LfIdle /\ FcIdle /\ HdrIdle /\ KsIdle /\ CbIdle /\ MtIdle

SpecProxy == InitProxy /\ [][ProxyNext]_vars

InitTunnel == ProxyIdle /\ TunnelInit /\ PipeIdle /\ WsIdle /\ ClientIdle /\ KaIdle
        /\ BrIdle /\ LfIdle /\ FcIdle /\ HdrIdle /\ KsIdle /\ CbIdle /\ MtIdle

SpecTunnel == InitTunnel /\ [][TunnelNext]_vars

InitPipe == ProxyIdle /\ TunnelIdle /\ PipeInit /\ WsIdle /\ ClientIdle /\ KaIdle
        /\ BrIdle /\ LfIdle /\ FcIdle /\ HdrIdle /\ KsIdle /\ CbIdle /\ MtIdle

SpecPipe == InitPipe /\ [][PipeNext]_vars

InitWsRead == ProxyIdle /\ TunnelIdle /\ PipeIdle /\ WsInit /\ ClientIdle /\ KaIdle
        /\ BrIdle /\ LfIdle /\ FcIdle /\ HdrIdle /\ KsIdle /\ CbIdle /\ MtIdle

SpecWsRead == InitWsRead /\ [][WsReadNext]_vars

InitWsWrite == ProxyIdle /\ TunnelIdle /\ PipeIdle /\ WsInit /\ ClientIdle /\ KaIdle
        /\ BrIdle /\ LfIdle /\ FcIdle /\ HdrIdle /\ KsIdle /\ CbIdle /\ MtIdle

SpecWsWrite == InitWsWrite /\ [][WsWriteNext]_vars

InitClient == ProxyIdle /\ TunnelIdle /\ PipeIdle /\ WsIdle /\ ClientInit /\ KaIdle
        /\ BrIdle /\ LfIdle /\ FcIdle /\ HdrIdle /\ KsIdle /\ CbIdle /\ MtIdle

SpecClient == InitClient /\ [][ClientNext]_vars

\* connectionLoop with its scheduling: every step of connectionLoop and
\* connectionOnce that can be taken is taken eventually (dial, handshake and
\* config request end by an answer or a transport error; BindSSH returns
\* when the session ends).  Nothing forces a cancel or a timer.
ClientFairness ==
    /\ WF_vars(OnceEnter)
    /\ WF_vars(OnceDial)
    /\ WF_vars(OnceHandshake)
    /\ WF_vars(OnceConfig)
    /\ WF_vars(OnceBindReturn)
    /\ WF_vars(LoopResult)
    /\ WF_vars(SleepElapsed)
    /\ WF_vars(SleepCancelled)

InitClientFair ==
    /\ ProxyIdle /\ TunnelIdle /\ PipeIdle /\ WsIdle /\ ClientInit /\ KaIdle
        /\ BrIdle /\ LfIdle /\ FcIdle /\ HdrIdle /\ KsIdle /\ CbIdle /\ MtIdle
    /\ maxRetryInterval = 0

SpecClientFair == InitClientFair /\ [][ClientNext]_vars /\ ClientFairness

InitKeepAlive ==
    ProxyIdle /\ TunnelInit /\ PipeIdle /\ WsIdle /\ ClientIdle /\ KaInit
        /\ BrIdle /\ LfIdle /\ FcIdle /\ HdrIdle /\ KsIdle /\ CbIdle /\ MtIdle

SpecKeepAlive == InitKeepAlive /\ [][KeepAliveNext]_vars /\ KeepAliveFairness

InitBindRemotes ==
    ProxyIdle /\ TunnelIdle /\ PipeIdle /\ WsIdle /\ ClientIdle /\ KaIdle
        /\ BrInit /\ LfIdle /\ FcIdle /\ HdrIdle /\ KsIdle /\ CbIdle /\ MtIdle

SpecBindRemotes == InitBindRemotes /\ [][BindRemotesNext]_vars

InitLifetime ==
    ProxyIdle /\ TunnelIdle /\ PipeIdle /\ WsIdle /\ ClientIdle /\ KaIdle
        /\ BrIdle /\ LfInit /\ FcIdle /\ HdrIdle /\ KsIdle /\ CbIdle /\ MtIdle

SpecLifetime == InitLifetime /\ [][LifetimeNext]_vars /\ LifetimeFairness

InitForward ==
    ProxyIdle /\ TunnelIdle /\ PipeIdle /\ WsIdle /\ ClientIdle /\ KaIdle
        /\ BrIdle /\ LfIdle /\ FcInit /\ HdrIdle /\ KsIdle /\ CbIdle /\ MtIdle

SpecForward == InitForward /\ [][ForwardNext]_vars

InitHeaders ==
    ProxyIdle /\ TunnelIdle /\ PipeIdle /\ WsIdle /\ ClientIdle /\ KaIdle
        /\ BrIdle /\ LfIdle /\ FcIdle /\ HdrInit /\ KsIdle /\ CbIdle /\ MtIdle

SpecHeaders == InitHeaders /\ [][HeadersNext]_vars

InitMeter ==
    ProxyIdle /\ TunnelIdle /\ PipeIdle /\ WsIdle /\ ClientIdle /\ KaIdle
        /\ BrIdle /\ LfIdle /\ FcIdle /\ HdrIdle /\ KsIdle /\ CbIdle /\ MtInit

SpecMeter == InitMeter /\ [][MeterNext]_vars

InitClientBind ==
    ProxyIdle /\ TunnelIdle /\ PipeIdle /\ WsIdle /\ ClientIdle /\ KaIdle
        /\ BrIdle /\ LfIdle /\ FcIdle /\ HdrIdle /\ KsIdle /\ CbInit /\ MtIdle

SpecClientBind == InitClientBind /\ [][ClientBindNext]_vars

InitKeepAliveSeq ==
    ProxyIdle /\ TunnelIdle /\ PipeIdle /\ WsIdle /\ ClientIdle /\ KaIdle
        /\ BrIdle /\ LfIdle /\ FcIdle /\ HdrIdle /\ KsInit /\ CbIdle /\ MtIdle

SpecKeepAliveSeq == InitKeepAliveSeq /\ [][KeepAliveSeqNext]_vars /\ KeepAliveSeqFairness

InitClientLong == ProxyIdle /\ TunnelIdle /\ PipeIdle /\ WsIdle /\ ClientInit /\ KaIdle
        /\ BrIdle /\ LfIdle /\ FcIdle /\ HdrIdle /\ KsIdle /\ CbIdle /\ MtIdle

SpecClientLong == InitClientLong /\ [][ClientLongNext]_vars

(***************************************************************************)
(* Claims                                                                  *)
(***************************************************************************)

\* C1: the number of forwarded connections in flight (pipeRemote started and
\* not yet returned) never exceeds the per-proxy cap of 100.
C1_InFlightWithinCap == inFlight <= maxConns

\* C2: a Tunnel holds at most one active session: a BindSSH that finds
\* activeConn non-nil panics and leaves the stored session alone, and
\* activeConn only changes from nil to the session of the BindSSH executing
\* its store, and from that session back to nil by that same BindSSH.
BindersActive == {s \in Sessions : bpc[s] \in {"bound", "waiting", "added"}}

C2_Step ==
    /\ \A s \in Sessions :
         (bpc[s] = "called" /\ bpc'[s] # "called" /\ activeConn # NoConn)
            => (panicked' /\ bpc'[s] = "panicked" /\ activeConn' = activeConn)
    /\ (activeConn' # activeConn) =>
         \/ /\ activeConn = NoConn
            /\ activeConn' \in Sessions
            /\ bpc[activeConn'] = "called"
            /\ bpc'[activeConn'] = "bound"
         \/ /\ activeConn \in Sessions
            /\ activeConn' = NoConn
            /\ bpc[activeConn] = "added"
            /\ bpc'[activeConn] = "returned"

C2_OneActiveSession ==
    /\ [](Cardinality(BindersActive) <= 1)
    /\ [](activeConn # NoConn => BindersActive = {activeConn})
    /\ [][C2_Step]_vars

\* C2 witness: a second BindSSH panicked while a session was stored.
C2_Witness == panicked /\ activeConn \in Sessions

\* C3: a getSSH call that starts after a BindSSH returned and before the next
\* one stores a session, with a live context, returns only when a new session
\* was stored during the call, the bounded wait elapsed or its context was
\* canceled.
C3_FreshWaiterBlocks ==
    \A w \in Waiters :
        (gpc[w] = "done" /\ gGap[w])
            => (gvia[w] \in {"timeout", "cancel"} \/ gStored[w])

\* C4: a getSSH call with a non-canceled context that runs while a session
\* is stored (started after the store, no clear during the call) does not
\* reach the blocking select and returns that session from the first read;
\* only BindSSH steps change the stored session.
C4_Inv ==
    \A w \in Waiters :
        (gCallConn[w] # NoConn /\ ~gCleared[w]) =>
            /\ gpc[w] \notin {"select", "ready"}
            /\ (gpc[w] = "done" /\ gvia[w] # "cancel")
                  => (gres[w] = gCallConn[w] /\ gvia[w] = "immediate")

C4_ActiveVisible ==
    /\ []C4_Inv
    /\ [][activeConn' # activeConn => \E s \in Sessions : bpc'[s] # bpc[s]]_vars

\* C4 witness: a call made while a session was stored returned that session.
C4_Witness ==
    \E w \in Waiters :
        /\ gpc[w] = "done"
        /\ gCallConn[w] \in Sessions
        /\ ~gCleared[w]
        /\ gres[w] = gCallConn[w]
        /\ gvia[w] = "immediate"

\* C5: in each direction of a Pipe the bytes the destination accepted are the
\* bytes read from the source, in order, without duplication: they are always
\* the first `total` bytes of the source's stream; the only bytes read and
\* not (yet) written are the chunk being written, or the tail of the chunk
\* whose Write was short or failed; and the counts Pipe returns are the
\* numbers of bytes the destinations accepted.
C5_ExactCopy ==
    /\ \A d \in Dirs :
         /\ epOut[To(d)] = StreamPrefix(From(d), ctotal[d])
         /\ ctotal[d] <= epPos[From(d)]
         /\ cpc[d] = "write" => ctotal[d] + SegLen(cbuf[d]) = epPos[From(d)]
         /\ (cpc[d] # "write" /\ ~cwfail[d]) => ctotal[d] = epPos[From(d)]
    /\ pipePc = "returned" =>
         /\ sent = BytesLen(epOut["dst"])
         /\ received = BytesLen(epOut["src"])

\* C5 witness: a stream longer than the largest chunk was copied whole, in
\* several chunks, and Pipe returned its length.
C5_Witness ==
    /\ pipePc = "returned"
    /\ epLen["src"] = chunkSizeMax + 1
    /\ cret["sent"] = "nil"
    /\ sent = epLen["src"]
    /\ epOut["dst"] = StreamPrefix("src", epLen["src"])

\* C6: once a copy direction has passed o.Do(close) both endpoints are
\* closed; Close is never called twice on an endpoint; and when Pipe returns
\* both copy goroutines have finished and each endpoint was closed once.
C6_CloseBothOnce ==
    /\ \A d \in Dirs :
         cpc[d] \in {"wgdone", "finished"} => \A e \in Ends : epCloses[e] >= 1
    /\ \A e \in Ends : epCloses[e] <= 1
    /\ pipePc = "returned" =>
         /\ \A d \in Dirs : cpc[d] = "finished"
         /\ \A e \in Ends : epCloses[e] = 1

\* C6 witness: Pipe returned after one direction met the end of its stream
\* and the other was ended by the close.
C6_Witness ==
    /\ pipePc = "returned"
    /\ cret["sent"] = "nil"
    /\ cret["received"] = "err"
    /\ \A e \in Ends : epCloses[e] = 1

\* The payloads of the first k frames that arrived, in arrival order.
RECURSIVE FramesBytes(_)
FramesBytes(k) ==
    IF k = 0 THEN <<>>
    ELSE AppendBytes(FramesBytes(k - 1), <<k, 0, inFrames[k]>>)

\* C7: every Read returns at most len(dst) bytes, a Read that finds a
\* leftover consumes no frame, and the bytes returned so far followed by the
\* leftover are the payloads of the frames consumed so far, in arrival order.
C7_ReadStream ==
    /\ rdN <= rdDst
    /\ rdHadBuff => ~rdTook
    /\ AppendBytes(rdOut, buff) = FramesBytes(taken)

\* The frames of the current Write that are on the wire, as <<from, to>>.
ThisFrames ==
    LET fs == SelectSeq(wire, LAMBDA f : f[1] = wrCalls)
    IN [k \in 1..Len(fs) |-> <<fs[k][2], fs[k][3]>>]

FrameLen(f) == f[2] - f[1]

RECURSIVE FramesLen(_)
FramesLen(fs) == IF fs = <<>> THEN 0 ELSE FrameLen(Head(fs)) + FramesLen(Tail(fs))

\* b of n bytes cut into frames of writeBufSize bytes, the last one holding
\* what remains; one frame when n <= writeBufSize.
FullThenRest(n) ==
    IF n <= writeBufSize THEN << <<0, n>> >>
    ELSE [k \in 1..((n + writeBufSize - 1) \div writeBufSize) |->
            <<(k - 1) * writeBufSize, Min2(k * writeBufSize, n)>>]

IsPrefix(s, t) == Len(s) <= Len(t) /\ \A k \in 1..Len(s) : s[k] = t[k]

\* C8 (as stated): a Write that succeeded sent one frame when the payload
\* is at most 64KB, and otherwise frames of equal size, in order, whose
\* concatenation is the payload; no frame exceeds 64KB.
C8_EqualSizedFrames ==
    (wrPc = "returned" /\ wrErr = "nil") =>
        LET fs == ThisFrames
        IN /\ wrLen <= writeBufSize => fs = << <<0, wrLen>> >>
           /\ \A j, k \in 1..Len(fs) : FrameLen(fs[j]) = FrameLen(fs[k])
           /\ \A k \in 1..Len(fs) : FrameLen(fs[k]) <= writeBufSize
           /\ \A k \in 1..Len(fs) :
                fs[k][1] = (IF k = 1 THEN 0 ELSE fs[k - 1][2])
           /\ FramesLen(fs) = wrLen

\* C8 (amended): a Write that succeeded sent one frame when the payload is
\* at most 64KB, and otherwise frames of exactly 64KB each except the last,
\* which holds the remaining bytes, in order and covering the payload; while
\* a Write runs its frames are a prefix of that sequence; no frame exceeds
\* 64KB.
C8_FullFramesThenRest ==
    /\ \A k \in 1..Len(wire) : wire[k][3] - wire[k][2] <= writeBufSize
    /\ wrPc # "idle" => IsPrefix(ThisFrames, FullThenRest(wrLen))
    /\ (wrPc = "returned" /\ wrErr = "nil") => ThisFrames = FullThenRest(wrLen)

\* C8 witness: a payload one byte longer than 64KB was sent as a frame of
\* 64KB and a frame of one byte.
C8_Witness ==
    /\ wrPc = "returned"
    /\ wrErr = "nil"
    /\ wrLen = writeBufSize + 1
    /\ ThisFrames = << <<0, writeBufSize>>, <<writeBufSize, writeBufSize + 1>> >>

\* C9: a Write that returns an error returns the total size of the frames
\* it sent, and the failed WriteMessage was its last one; a Write that
\* returns no error returns len(b) and none of its WriteMessage calls failed.
C9_PartialFailureCount ==
    /\ wrPc \in {"loop", "single"} => wrMsgs = Len(ThisFrames)
    /\ (wrPc = "returned" /\ wrErr = "err") =>
         /\ wrN = FramesLen(ThisFrames)
         /\ wrMsgs = Len(ThisFrames) + 1
    /\ (wrPc = "returned" /\ wrErr = "nil") =>
         /\ wrN = wrLen
         /\ wrMsgs = Len(ThisFrames)
    /\ wrPc = "returned" => wrErr \in {"nil", "err"}

\* C9 witness: the third frame of a payload of 128KB + 1 failed after two
\* frames were sent, and Write returned 128KB with the error.
C9_Witness ==
    /\ wrPc = "returned"
    /\ wrErr = "err"
    /\ wrLen = 2 * writeBufSize + 1
    /\ Len(ThisFrames) = 2
    /\ wrN = 2 * writeBufSize

\* C10 (as stated): when every attempt failed and connectionLoop gave up,
\* it had made exactly MaxRetryCount connection attempts; giving up means
\* Close was called and nil returned; with MaxRetryCount < 0 it never gives
\* up.
C10_ExactlyNAttempts ==
    /\ (gaveUp /\ allFailed) => attempts = maxRetryCount
    /\ gaveUp => (loopPc = "returned" /\ loopRet = "nil" /\ clientClosed = 1)
    /\ maxRetryCount < 0 => ~gaveUp

\* C10 (amended): with MaxRetryCount = N >= 0 and every attempt failing,
\* connectionLoop makes at most N + 1 attempts (the first one and N
\* retries); when it returns without its ctx being canceled it has made
\* exactly N + 1 attempts, logged the give-up, called Close once and returned
\* nil; it gives up only with N >= 0, and with N < 0 it returns only after
\* its ctx was canceled.
C10_RetryBudget ==
    /\ (allFailed /\ maxRetryCount >= 0) => attempts <= maxRetryCount + 1
    /\ (allFailed /\ gaveUp) => attempts = maxRetryCount + 1
    /\ gaveUp => /\ maxRetryCount >= 0
                 /\ loopPc = "returned"
                 /\ loopRet = "nil"
                 /\ clientClosed = 1
    /\ (loopPc = "returned" /\ ~clientCtx) => gaveUp
    /\ (loopPc = "returned" /\ maxRetryCount < 0) => (clientCtx /\ ~gaveUp)
    /\ ~gaveUp => clientClosed = 0

\* C10 witness: with MaxRetryCount = 2 and no cancel, three attempts failed
\* and connectionLoop gave up.
C10_Witness ==
    /\ maxRetryCount = 2
    /\ ~clientCtx
    /\ allFailed
    /\ gaveUp
    /\ attempts = 3
    /\ loopPc = "returned"

\* C11: the sleep before the next attempt and the adaptive term are each at
\* most 10 minutes, in every iteration of connectionLoop.
C11_SleepCeiling ==
    /\ finalBackoff <= tenMinutes
    /\ adaptiveBackoff <= tenMinutes

\* C11 witness: after twelve consecutive failures with MaxRetryInterval of
\* 25 minutes the product base * (failures / 3) exceeds 10 minutes, and both
\* the adaptive term and the sleep were cut to the ceiling.
C11_Witness ==
    /\ loopPc = "sleep"
    /\ consecutiveFailures >= 12
    /\ BackoffForAttempt(attempt - 1) * (consecutiveFailures \div 3) > tenMinutes
    /\ adaptiveBackoff = tenMinutes
    /\ finalBackoff = tenMinutes

\* What one iteration of connectionLoop does to the backoff state after an
\* attempt, stable telling whether the attempt counts as a stable session:
\* a stable one zeroes the consecutive-failure counter and the adaptive term
\* and restarts the backoff counter (the iteration's own b.Duration() then
\* takes it to 1 and the sleep is the one of attempt 0); any other attempt
\* adds one to the consecutive-failure counter and resets nothing.
BackoffStateStep(stable) ==
    IF stable
      THEN /\ consecutiveFailures' = 0
           /\ adaptiveBackoff' = 0
           /\ attempt' = (IF loopPc' = "sleep" THEN 1 ELSE 0)
           /\ loopPc' = "sleep" => finalBackoff' = BackoffForAttempt(0)
      ELSE /\ consecutiveFailures' = consecutiveFailures + 1
           /\ attempt' >= attempt
           /\ adaptiveBackoff > 0 => adaptiveBackoff' > 0

\* C12: the backoff state is reset exactly after an attempt whose session
\* was bound for longer than the stability threshold of 5 seconds; every
\* other attempt resets nothing and adds one consecutive failure.
C12_Step ==
    (loopPc = "result" /\ loopPc' # "result") =>
        BackoffStateStep(sessionTime > stabilityThreshold)

C12_ResetOnStableSession == [][C12_Step]_vars

\* C13: once ctx is canceled no dial is started any more, a connectionOnce
\* that is entered returns "Cancelled" at its ctx test, a sleep whose timer
\* has not fired ends by the return of connectionLoop and not by a retry,
\* and connectionLoop eventually returns nil.
C13_Step ==
    clientCtx =>
        /\ dials' = dials
        /\ (loopPc = "call" /\ loopPc' # "call") =>
               (loopPc' = "result" /\ ~connected' /\ connErr' = "Cancelled")
        /\ (loopPc = "sleep" /\ loopPc' # "sleep") =>
               (loopPc' = "returned" /\ loopRet' = "nil")

Pinged(s) == kaPings[s] > 0
LastPingFailed(s) == kaLast[s].err
LastPingStrange(s) ==
    ~kaLast[s].err /\ kaLast[s].body # <<>> /\ kaLast[s].body # Pong

\* C14 (as stated): after a ping that failed or was answered with anything
\* other than `pong` the loop has stopped pinging and goes on to close the
\* session; the loop closes a session only after such a ping.
C14_NonPongCloses ==
    \A s \in KaSessions :
        /\ (Pinged(s) /\ (LastPingFailed(s) \/ kaLast[s].body # Pong)) =>
               kaPc[s] \in {"close", "done"}
        /\ kaPc[s] = "done" => connClosed[s]
        /\ kaPc[s] \in {"close", "done"} =>
               (Pinged(s) /\ (LastPingFailed(s) \/ kaLast[s].body # Pong))

\* C14 (amended): after a ping that failed or was answered with a non-empty
\* body other than `pong` the loop pings no more and closes the session,
\* which makes BindSSH return (unless the process panicked on a double
\* bind); after a ping answered `pong` or with an empty body the loop goes
\* on, and the loop closes a session only after a failed or strange ping.
C14_BadPingCloses ==
    /\ [](\A s \in KaSessions :
            /\ (Pinged(s) /\ (LastPingFailed(s) \/ LastPingStrange(s))) =>
                   kaPc[s] \in {"close", "done"}
            /\ (Pinged(s) /\ ~LastPingFailed(s) /\ ~LastPingStrange(s)) =>
                   kaPc[s] \in {"top", "ping"}
            /\ kaPc[s] = "done" => connClosed[s]
            /\ kaPc[s] \in {"close", "done"} =>
                   (Pinged(s) /\ (LastPingFailed(s) \/ LastPingStrange(s))))
    /\ \A s \in KaSessions :
         (kaPc[s] = "close") ~> (bpc[s] = "returned" \/ panicked)

\* C14 witness: a ping was answered with a body other than `pong`, the loop
\* closed the connection, which was still open, and BindSSH returned.
C14_Witness ==
    /\ kaPc[1] = "done"
    /\ kaLast[1] = [err |-> FALSE, body |-> <<"p", "o", "n">>]
    /\ kaClosedIt[1]
    /\ bpc[1] = "returned"

\* A keepAliveLoop whose kaSleep is the duration of a sleep it made.
Slept(s) == kaPc[s] = "ping" \/ kaPings[s] > 0

C16_EarlyErrors ==
    (brN = 0 \/ ~brInbound) =>
        /\ brI = 0
        /\ brListeners = {}
        /\ proxyCount = brCount0
        /\ \A i \in Remotes : brIds[i] = 0 /\ prPc[i] = "none"
        /\ brPc \in {"idle", "returned"}
        /\ brPc = "returned" =>
             brRet = IF brN = 0 THEN <<"no remotes", 0>>
                     ELSE <<"inbound connections blocked", 0>>

\* C16 witness: BindRemotes returned for two remotes on a tunnel that is not
\* inbound, with proxies counted before the call.
C16_Witness ==
    /\ brPc = "returned"
    /\ brN = 2
    /\ ~brInbound
    /\ brCount0 = 2
    /\ brRet = <<"inbound connections blocked", 0>>

\* What BindRemotes returned after eg.Wait(): every proxy was made, counted
\* and run, all have returned, the error is the first one a proxy's Run gave
\* the errgroup and it canceled the ctx of the others, and it is nil when no
\* proxy failed, which happens only after the caller's ctx was canceled.
AfterWait ==
    /\ brI = brN
    /\ proxyCount = brCount0 + brN
    /\ \A i \in 1..brN : brIds[i] = brCount0 + i /\ prPc[i] = "returned"
    /\ brListeners = {i \in 1..brN : prErr[i] # NilErr}
    /\ brFirst # 0 => brRet = <<"run", brFirst>> /\ prErr[brFirst] = brRet
                      /\ egCtx
    /\ brFirst = 0 => brRet = NilErr /\ brCtx
                      /\ \A i \in 1..brN : prErr[i] = NilErr

\* C17 as stated: for a non-empty remote list on an inbound tunnel,
\* BindRemotes makes one proxy per remote, runs them all, returns after all
\* have returned, with the first error of a Run or nil after a cancel.
C17_OneProxyPerRemote ==
    (brPc = "returned" /\ brN > 0 /\ brInbound) => AfterWait

\* C17 with the failure of NewProxy set apart: when NewProxy fails for a
\* remote, BindRemotes returns that error at once, no proxy is run, and the
\* proxies made before it stay counted with their listeners bound; otherwise
\* it returns as C17 states.
C17_OneProxyPerBoundRemote ==
    (brPc = "returned" /\ brN > 0 /\ brInbound) =>
        IF brRet[1] = "listen"
          THEN /\ brRet = <<"listen", brI + 1>>
               /\ brI < brN
               /\ proxyCount = brCount0 + brI
               /\ brListeners = 1..brI
               /\ \A i \in Remotes : prPc[i] = "none"
          ELSE AfterWait

\* C17 witness: three proxies ran, two of them failed, and BindRemotes
\* returned the error of the one that reached the errgroup first, which is
\* not the first remote.
C17_Witness ==
    /\ brPc = "returned"
    /\ brN = 3
    /\ brFirst = 2
    /\ prErr[1] = <<"run", 1>>
    /\ prErr[3] = NilErr
    /\ brRet = <<"run", 2>>

\* The goroutines named by C18 that have ended or were never started.
WatcherEnded == watchPc \in {"none", "exited"}
KeepAliveEnded == kaLoopPc \in {"none", "exited"}
HealthCheckEnded == healthPc = "none"
HandlersEnded == handlersN = 0
ProxyGoroutinesEnded == lfCloserPc \in {"none", "exited"} /\ lfWorkers = 0
LatchWaitersEnded == \A c \in Callers : latchPc[c] \in {"none", "exited"}

\* C18: once the root context is canceled, the time comes after which no
\* goroutine of the tunnel or of its proxy is running: watcher, keepalive
\* loop, health check, handlers, listener-closer, workers and latch waiters.
C18_AllGoroutinesEnd ==
    [](rootCtx => <>[](/\ WatcherEnded
                       /\ KeepAliveEnded
                       /\ HealthCheckEnded
                       /\ HandlersEnded
                       /\ ProxyGoroutinesEnded
                       /\ LatchWaitersEnded))

\* The part of C18 that holds: the goroutines that watch the ctx or the ssh
\* connection end after the cancel.
LfCtxGoroutinesEnd ==
    [](rootCtx => <>[](/\ WatcherEnded
                       /\ KeepAliveEnded
                       /\ HandlersEnded
                       /\ ProxyGoroutinesEnded))

\* With no health check, the latch waiters alone break C18.
LfWaitersEnd ==
    [](rootCtx => <>[]LatchWaitersEnded)

\* Connection c fails in this step: its pipeRemote ends for want of a
\* session, on a channel open failure or on a pipe error.
FcFails(c) ==
    /\ fcEnd[c] = "none"
    /\ fcEnd'[c] \in {"no session", "open error", "pipe error"}

\* C19: a step in which a forwarded connection fails closes that
\* connection's local stream and leaves it no open channel; it leaves the
\* session open and stored, and every other connection where it was, with
\* its stream and its channel as they were.
C19_Step ==
    \A c \in Forwards :
        FcFails(c) =>
            /\ fcSrcClosed'[c]
            /\ fcChan'[c] # "open"
            /\ fcActive' = fcActive
            /\ fcSessClosed' = fcSessClosed
            /\ \A d \in Forwards \ {c} :
                 /\ fcPc'[d] = fcPc[d]
                 /\ fcSrcClosed'[d] = fcSrcClosed[d]
                 /\ fcChan'[d] = fcChan[d]
                 /\ fcEnd'[d] = fcEnd[d]

C19_FailureIsLocal == [][C19_Step]_vars

\* C19 witness: connection 1 ended on a pipe error while connection 2 goes on
\* piping over the session, which is still stored and open.
C19_Witness ==
    /\ fcEnd[1] = "pipe error"
    /\ fcSrcClosed[1]
    /\ fcChan[1] = "closed"
    /\ fcPc[2] = "pipe"
    /\ fcChan[2] = "open"
    /\ ~fcSrcClosed[2]
    /\ fcActive # NoConn
    /\ ~fcSessClosed

\* C20: once an attempt ended because the server rejected the config (a
\* non-empty reply to the "config" request), connectionLoop calls
\* connectionOnce no more.
C20_NoRetryAfterReject ==
    [][connErr = "rejected" => attempts' = attempts]_vars

\* C21: an iteration that finds the last success older than the probe
\* window sleeps at most the probe value of five seconds.
C21_ProbeCapsSleep ==
    [][(loopPc = "result" /\ loopPc' = "sleep" /\ lastSuccess' = "old")
         => finalBackoff' <= fiveSeconds]_vars

\* C22: an iteration whose result reaches connectionLoop after the cancel
\* logs no "Connection error", no "Give up" and no "Retrying in".
C22_SilentAfterCancel ==
    [][(lateResult /\ loopPc = "result" /\ loopPc' # "result")
         => logged' \cap {"Connection error", "Give up", "Retrying in"} = {}]_vars

\* C23: the headers GenerateRealisticHeaders returns have a non-empty
\* User-Agent, Accept, Accept-Language, Accept-Encoding, Origin, Connection
\* and Upgrade, the User-Agent is an entry of userAgents and Upgrade is
\* "websocket".
C23_RequiredHeaders ==
    hdrGenerated =>
        /\ \A k \in {"User-Agent", "Accept", "Accept-Language",
                     "Accept-Encoding", "Origin", "Connection", "Upgrade"} :
             HeaderGet(hdrReal, k) # ""
        /\ \E i \in 1..Len(userAgents) :
             HeaderGet(hdrReal, "User-Agent") = userAgents[i]
        /\ HeaderGet(hdrReal, "Upgrade") = "websocket"

\* C24: the headers MergeHeaders(U, R) returns have exactly the keys of U and
\* of R; a key of U has U's value, a key of R alone has R's value.
C24_UserTakesPrecedence ==
    hdrDone =>
        /\ DOMAIN hdrMerged = DOMAIN hdrUser \cup DOMAIN hdrReal
        /\ \A k \in DOMAIN hdrUser : hdrMerged[k] = hdrUser[k]
        /\ \A k \in DOMAIN hdrReal \ DOMAIN hdrUser : hdrMerged[k] = hdrReal[k]

\* C24 witness: User-Agent is given by both with different values, Accept by
\* the generated headers alone and X-Custom-Header by the user alone.
C24_Witness ==
    /\ hdrDone
    /\ hdrGenerated
    /\ "User-Agent" \in DOMAIN hdrUser
    /\ "X-Custom-Header" \in DOMAIN hdrUser
    /\ hdrUser["User-Agent"] # hdrReal["User-Agent"]
    /\ hdrMerged["User-Agent"] = <<"Custom-Agent/1.0">>
    /\ hdrMerged["Accept"] = <<"*/*">>

\* C25: when a TCP proxy's context is canceled, the proxy lets every
\* in-flight forwarded connection finish its pipe, and only after all of them
\* have finished does it close the listener and return from Run: the step
\* that closes the listener, and the step in which Run returns, are taken
\* with no pipeRemote in flight.
C25_DrainBeforeClose ==
    [][(~reverseServer /\ pctx
          /\ \/ ~tcpClosed /\ tcpClosed'
             \/ runPc # "returned" /\ runPc' = "returned")
         => inFlight = 0]_vars

\* C26: every frame that Write has put on the wire is within the size limit
\* the peer adapter's Read sets on inbound frames (SetReadLimit(readBufSize)),
\* so the peer's ReadMessage accepts it and no written frame makes the
\* peer's Read fail or lose bytes.
C26_WrittenFramesReadable ==
    \A k \in 1..Len(wire) : wire[k][3] - wire[k][2] <= readBufSize

\* C27: when the slot pool is full at the moment a local connection is
\* accepted, the connection is closed at once: no pipeRemote is started for
\* it (so no channel is opened for it), no slot is taken, and the accept loop
\* goes on to the next Accept.  A pipeRemote is only ever started by the
\* accept loop's select finding room, so a closed connection is not kept
\* for later forwarding.
C27_Step ==
    /\ (runPc = "select" /\ runPc' # "select" /\ connPool = maxConns)
          => /\ lastAccept' = "closed"
             /\ inFlight' = inFlight
             /\ connPool' = connPool
             /\ runPc' = "accept"
    /\ (inFlight' > inFlight)
          => /\ runPc = "select"
             /\ connPool < maxConns
             /\ inFlight' = inFlight + 1
             /\ lastAccept' = "forwarded"

C27_FullPoolCloses == [][C27_Step]_vars

\* C27 witness: a connection was closed by the accept loop on a full pool,
\* and the loop is back at Accept.
C27_Witness ==
    lastAccept = "closed" /\ connPool = maxConns /\ runPc = "accept"

\* The pipeRemote calls that have started and not returned.
FcRunning == {c \in Forwards : fcPc[c] \in {"getssh", "open", "pipe"}}

\* pipeRemote of c returns because getSSH gave no session or OpenChannel
\* failed.
FcFailsEarly(c) ==
    /\ fcEnd[c] = "none"
    /\ fcEnd'[c] \in {"no session", "open error"}

\* C28: when pipeRemote ends because getSSH returned no session or opening
\* the channel failed, the local connection is closed, FailedConnections
\* goes up by exactly one, no channel was opened and no pipe is run, a token
\* is taken out of the pool whenever it holds one, so that no slot stays
\* reserved for the connection (the pool holds at most one token per call
\* still running), and ActiveConnections is back where it was before the
\* call: at every moment it counts exactly the calls that are running.
\* FailedConnections changes in no other step.
C28_Step ==
    /\ \A c \in Forwards :
         FcFailsEarly(c) =>
            /\ fcSrcClosed'[c]
            /\ fcFailed' = fcFailed + 1
            /\ fcChan[c] = "none"
            /\ fcChan'[c] = "none"
            /\ fcPc'[c] = "done"
            /\ fcActiveConns' = fcActiveConns - 1
            /\ fcPool > 0 => fcPool' = fcPool - 1
            /\ fcPool' <= Cardinality({d \in Forwards :
                              fcPc'[d] \in {"getssh", "open", "pipe"}})
    /\ fcFailed' # fcFailed =>
         Cardinality({c \in Forwards : FcFailsEarly(c)}) = 1

C28_EarlyFailureAccounting ==
    /\ [](fcActiveConns = Cardinality(FcRunning))
    /\ [](fcPool <= Cardinality(FcRunning))
    /\ [][C28_Step]_vars

\* C28 witness: connection 1 ended on a failed OpenChannel and connection 2
\* on a getSSH without session; both local connections are closed, two
\* failures are counted, no slot is held and no call is counted as active.
C28_Witness ==
    /\ fcEnd[1] = "open error"
    /\ fcEnd[2] = "no session"
    /\ fcSrcClosed[1]
    /\ fcSrcClosed[2]
    /\ fcFailed = 2
    /\ fcPool = 0
    /\ fcActiveConns = 0

\* The errors with which each step of connectionOnce before BindSSH fails.
StepErrors ==
    [call |-> {"Cancelled", "proxy"}, dial |-> {"dial"},
     handshake |-> {"handshake"}, config |-> {"config", "rejected"}]

\* C29: within one connectionOnce, BindSSH is called only by the step in
\* which the config request was answered without error and with an empty
\* body, which is reached only after the handshake succeeded, which is
\* reached only after the dial succeeded.  When the dial, the handshake or
\* the config request fails, connectionOnce returns connected = false with
\* that step's error and BindSSH is not called.
C29_Step ==
    /\ binds' # binds
          => loopPc = "config" /\ loopPc' = "bound" /\ binds' = binds + 1
    /\ (loopPc' = "bound" /\ loopPc # "bound")
          => loopPc = "config" /\ binds' = binds + 1
    /\ (loopPc' = "config" /\ loopPc # "config") => loopPc = "handshake"
    /\ (loopPc' = "handshake" /\ loopPc # "handshake")
          => loopPc = "dial" /\ dials' = dials + 1
    /\ (loopPc' = "dial" /\ loopPc # "dial") => loopPc = "call"
    /\ \A step \in DOMAIN StepErrors :
         (loopPc = step /\ loopPc' = "result")
            => /\ connected' = FALSE
               /\ connErr' \in StepErrors[step]
               /\ binds' = binds

C29_BindAfterConfig == [][C29_Step]_vars

\* C29 witness: a first connectionOnce failed before BindSSH, the second one
\* went through dial, handshake and config and is inside BindSSH.
C29_Witness ==
    loopPc = "bound" /\ attempts = 2 /\ dials = 2 /\ binds = 1

\* C30: when NewProxy fails to bind the local listener of a remote,
\* BindRemotes returns that error in that step, and Run is started for no
\* proxy, neither then nor later, the proxies bound earlier in the same call
\* included: a Run is only ever started once every remote of the call has
\* its listener bound.
C30_Step ==
    /\ (brPc = "create" /\ brPc' = "returned")
          => /\ brRet' = <<"listen", brI + 1>>
             /\ \A i \in Remotes : prPc'[i] = "none"
    /\ \A i \in Remotes :
         (prPc[i] = "none" /\ prPc'[i] # "none")
            => brI = brN /\ brRet = NoErr /\ (1..brN) \subseteq brListeners

C30_BindFailureRunsNothing ==
    /\ [](brRet[1] = "listen"
            => brPc = "returned" /\ \A i \in Remotes : prPc[i] = "none")
    /\ [][C30_Step]_vars

\* C30 witness: the listeners of remotes 1 and 2 were bound, binding the
\* third failed, BindRemotes returned that error and no proxy runs.
C30_Witness ==
    /\ brPc = "returned"
    /\ brRet = <<"listen", 3>>
    /\ brListeners = {1, 2}
    /\ \A i \in Remotes : prPc[i] = "none"

\* C31: in every state of the adapter, after any frames and Read calls
\* (destinations of length 0 and 1 included), the residual buffer c.buff
\* holds at most readBufSize bytes.
C31_ResidualBounded == SegLen(buff) <= readBufSize

\* C31 witness: a frame of readBufSize bytes was read into an empty
\* destination, so the whole frame is the residual buffer.
C31_Witness ==
    /\ rdCalls > 0
    /\ rdErr = "nil"
    /\ rdDst = 0
    /\ SegLen(buff) = readBufSize

\* The goprint goroutines that exist, and the callers whose swap succeeded
\* and whose go statement is next.
PrintersInFlight == {p \in Printers : mtGo[p] \in {"sleep", "loaded"}}
PrintersStarting == {c \in MeterCallers : mtPc[c] = "go"}

\* C32: for one Meter, under every interleaving of metered Reads and Writes,
\* at most one goprint goroutine exists at any time (one that is about to be
\* started counted with it); a print made while the latch is held starts no
\* goroutine; and m.printing is set exactly while a printer exists or is
\* being started, so that once the printer has finished the next print
\* starts a new one.
C32_Step ==
    \A c \in MeterCallers :
        (mtPc[c] = "print" /\ mtPc'[c] # "print") =>
            IF mtPrinting
              THEN mtPc'[c] = "idle" /\ mtGo' = mtGo /\ mtPrinting'
              ELSE mtPc'[c] = "go" /\ mtPrinting'

C32_SinglePrinter ==
    /\ [](Cardinality(PrintersInFlight) + Cardinality(PrintersStarting) <= 1)
    /\ [](mtPrinting <=> (PrintersInFlight \cup PrintersStarting # {}))
    /\ [][C32_Step]_vars

\* C32 witness: a first printer has finished and a second one, started by a
\* later call, is in flight, after a print request found the latch held.
C32_Witness ==
    /\ mtGo[1] = "done"
    /\ mtGo[2] \in {"sleep", "loaded"}
    /\ mtGo[3] = "none"
    /\ mtOps = 3
    /\ \A c \in MeterCallers : mtPc[c] = "idle"
    /\ mtPrinting

\* C33: in the client the "double bind ssh" panic is unreachable: over any
\* sequence of failed and successful attempts, BindSSH is entered only while
\* the tunnel holds no session, the tunnel holds a session only while the
\* BindSSH that stored it has not returned, and that session is the one of
\* the current attempt.
C33_Step ==
    (cbSession' # cbSession) =>
        /\ cbActive = NoConn
        /\ cbActive' = cbSession'
        /\ cbPc' = "wait"

C33_NoDoubleBind ==
    /\ [](~cbPanicked)
    /\ [](cbActive # NoConn => cbPc \in {"wait", "clear"} /\ cbActive = cbSession)
    /\ [][C33_Step]_vars

\* C33 witness: after a failed attempt and a session that was bound and
\* ended, a further attempt has bound a second session.
C33_Witness ==
    /\ cbCalls = 3
    /\ cbSession = 2
    /\ cbPc = "wait"
    /\ cbActive = 2

\* C34: across the sessions bound one after the other to one Tunnel, the
\* keepAliveLoop started for a session sends its pings on that session only
\* and closes that session only; at most one loop is started per bound
\* session and none for a session not bound; once the connection of its
\* session is closed a loop sends at most one more ping, which fails, and
\* then the loop ends.
C34_LoopKeepsItsSession ==
    /\ [](\A l \in KsSessions :
            /\ ksPinged[l] \subseteq {l}
            /\ ksClosedBy[l] \subseteq {l}
            /\ ksStarted[l] <= 1
            /\ ksLoopPc[l] # "none" => l <= ksCount /\ ksStarted[l] = 1
            /\ ksLate[l] <= 1
            /\ ksLate[l] = 1 => ksLoopPc[l] \in {"close", "done"})
    /\ \A l \in KsSessions :
         [](ksClosed[l] /\ ksLoopPc[l] # "none" => <>(ksLoopPc[l] = "done"))

\* C34 witness: the loop of session 1 is still asleep after its session
\* ended while session 2 is bound, open and pinged by its own loop.
C34_Witness ==
    /\ ksClosed[1]
    /\ ksLoopPc[1] = "sleep"
    /\ ksActive = 2
    /\ ~ksClosed[2]
    /\ ksPinged[2] = {2}

\* C35: the tokens held in the proxy's slot pool never exceed the forwarded
\* connections in flight, so with no connection in flight the pool is empty
\* and the next accepted connection is forwarded, not closed as "pool full".
C35_Step ==
    /\ connPool' <= inFlight'
    /\ inFlight' = 0 => connPool' = 0
    /\ (runPc = "select" /\ runPc' = "accept" /\ inFlight = 0)
          => lastAccept' = "forwarded" /\ inFlight' = 1

C35_NoSlotLeak ==
    /\ connPool <= inFlight
    /\ [][C35_Step]_vars

\* C35 witness: a connection was forwarded and has returned, no connection
\* is in flight, the pool is empty, and the next connection has been
\* accepted and is at the select.
C35_Witness ==
    /\ lastAccept = "forwarded"
    /\ inFlight = 0
    /\ connPool = 0
    /\ runPc = "select"

\* C36: a BindRemotes call that returns because a listener could not be
\* bound leaves the tunnel as it was before the call: no listener bound by
\* the call is still open and proxyCount has the value it had before.
C36_FailedBindRestores ==
    (brPc = "returned" /\ brRet[1] = "listen")
        => brListeners = {} /\ proxyCount = brCount0

====
